---------------------------- MODULE Spec2Model ----------------------------
(***************************************************************************)
(* Model of the precision code editor's exact-match edit protocol          *)
(* (precision-code-editor/src/tools/editCode.ts, utils/fileSystem.ts,      *)
(* utils/diff.ts, config.ts and their JavaScript twins in                  *)
(* precision-editor-js/index.js).                                          *)
(*                                                                         *)
(* Strings are sequences of one-character strings, 1-based; the source's   *)
(* 0-based offsets are shifted by one where they are used as indices.      *)
(***************************************************************************)
EXTENDS Integers, Sequences, FiniteSets, TLC

(***************************************************************************)
(* Bounds of the enumerated inputs.                                        *)
(***************************************************************************)
MaxBuf == 3

MaxPat == 2

MaxExp == 2

Min(a, b) == IF a <= b THEN a ELSE b

Max(a, b) == IF a >= b THEN a ELSE b

\* All sequences over S of length lo..hi.
SeqsOf(S, lo, hi) == UNION { [1..n -> S] : n \in lo..hi }

\* JavaScript's String.prototype.startsWith.
StartsWith(s, prefix) ==
  /\ Len(prefix) <= Len(s)
  /\ \A k \in 1..Len(prefix) : s[k] = prefix[k]

(***************************************************************************)
(* Regular expressions: the fragment of the JavaScript engine that the     *)
(* characters of the modelled inputs can exercise (literals, identity      *)
(* escapes, '.', the anchors '^' and '$', and the quantifiers '*', '+',    *)
(* '?' on a single atom).                                                  *)
(***************************************************************************)
\* The character class of escapeRegExp: [.*+?^${}()|[\]\\]
SpecialChars == {".", "*", "+", "?", "^", "$", "{", "}", "(", ")", "|", "[", "]", "\\"}

LineTerminators == {"\n", "\r"}

Quantifiers == {"*", "+", "?"}

\* A mutant of escapeRegExp whose class misses '.' and '$'.
RECURSIVE escapeRegExpNoDot(_)
escapeRegExpNoDot(string) ==
  IF string = <<>> THEN <<>>
  ELSE (IF Head(string) \in (SpecialChars \ {".", "$"})
          THEN <<"\\", Head(string)>>
          ELSE <<Head(string)>>) \o escapeRegExpNoDot(Tail(string))

\* string.replace(/[.*+?^${}()|[\]\\]/g, '\\$&'): a backslash before every
\* special character, every other character kept.
RECURSIVE escapeRegExp(_)
escapeRegExp(string) ==
  IF string = <<>> THEN <<>>
  ELSE (IF Head(string) \in SpecialChars
          THEN <<"\\", Head(string)>>
          ELSE <<Head(string)>>) \o escapeRegExp(Tail(string))

\* new RegExp(source, 'g'): the source parsed into atoms.  An atom is
\* [k |-> kind, c |-> character, q |-> quantifier]; kind "bad" marks a source
\* the constructor rejects (a lone trailing backslash, nothing to repeat).
RECURSIVE RegExpAtoms(_, _)
RegExpAtoms(source, i) ==
  IF i > Len(source) THEN <<>>
  ELSE
    LET c == source[i]
        escaped == c = "\\"
        width == IF escaped THEN 2 ELSE 1
        kind == IF escaped THEN (IF i + 1 <= Len(source) THEN "lit" ELSE "bad")
                ELSE IF c = "." THEN "any"
                ELSE IF c = "^" THEN "bol"
                ELSE IF c = "$" THEN "eol"
                ELSE IF c \in Quantifiers THEN "bad"
                ELSE "lit"
        ch == IF escaped /\ i + 1 <= Len(source) THEN source[i + 1] ELSE c
        j == i + width
        quantified == /\ kind \in {"lit", "any"}
                      /\ j <= Len(source)
                      /\ source[j] \in Quantifiers
        atom == [k |-> kind, c |-> ch, q |-> IF quantified THEN source[j] ELSE "1"]
    IN <<atom>> \o RegExpAtoms(source, IF quantified THEN j + 1 ELSE j)

RegExp(source) == RegExpAtoms(source, 1)

AtomMatches(atom, ch) ==
  IF atom.k = "lit" THEN ch = atom.c
  ELSE atom.k = "any" /\ ch \notin LineTerminators

\* Number of consecutive characters of s from cursor pos that atom matches,
\* at most limit.
RECURSIVE RunLength(_, _, _, _)
RunLength(atom, s, pos, limit) ==
  IF limit = 0 \/ pos > Len(s) \/ ~AtomMatches(atom, s[pos]) THEN 0
  ELSE 1 + RunLength(atom, s, pos + 1, limit - 1)

\* Backtracking match of atoms[k..] at cursor pos (1..Len(s)+1): the cursor
\* after the match, or 0 when there is none.  Quantifiers are greedy.
RECURSIVE MatchAt(_, _, _, _)
RECURSIVE TryRepeat(_, _, _, _, _, _)
MatchAt(atoms, k, s, pos) ==
  IF k > Len(atoms) THEN pos
  ELSE
    LET a == atoms[k] IN
    IF a.k = "bad" THEN 0
    ELSE IF a.k = "bol" THEN (IF pos = 1 THEN MatchAt(atoms, k + 1, s, pos) ELSE 0)
    ELSE IF a.k = "eol" THEN (IF pos = Len(s) + 1 THEN MatchAt(atoms, k + 1, s, pos) ELSE 0)
    ELSE IF a.q = "1" THEN
      (IF pos <= Len(s) /\ AtomMatches(a, s[pos])
         THEN MatchAt(atoms, k + 1, s, pos + 1) ELSE 0)
    ELSE
      LET most == RunLength(a, s, pos, IF a.q = "?" THEN 1 ELSE Len(s))
          least == IF a.q = "+" THEN 1 ELSE 0
      IN TryRepeat(atoms, k, s, pos, most, least)

TryRepeat(atoms, k, s, pos, n, least) ==
  IF n < least THEN 0
  ELSE LET r == MatchAt(atoms, k + 1, s, pos + n)
       IN IF r # 0 THEN r ELSE TryRepeat(atoms, k, s, pos, n - 1, least)

\* All matches of a global regular expression in s from cursor `from`, left
\* to right, as <<start, end>> pairs (end exclusive); an empty match advances
\* the cursor by one (AdvanceStringIndex).
RECURSIVE MatchAll(_, _, _)
MatchAll(atoms, s, from) ==
  IF from > Len(s) + 1 THEN <<>>
  ELSE
    LET starts == { p \in from..(Len(s) + 1) : MatchAt(atoms, 1, s, p) # 0 } IN
    IF starts = {} THEN <<>>
    ELSE
      LET st == CHOOSE p \in starts : \A o \in starts : p <= o
          en == MatchAt(atoms, 1, s, st)
      IN <<<<st, en>>>> \o MatchAll(atoms, s, IF en = st THEN en + 1 ELSE en)

\* (str.match(regexp) || []).length for a global regexp.
MatchCount(str, atoms) == Len(MatchAll(atoms, str, 1))


(***************************************************************************)
(* String.prototype.replace with a string replacement value.               *)
(***************************************************************************)
\* GetSubstitution of ECMAScript for a regular expression without capture
\* groups: '$$' gives '$', '$&' the matched text, '$`' the text before the
\* match, "$'" the text after it; '$' before a digit or any other character
\* stays as it is, there being no group to refer to.  position is the 1-based
\* index of the match in str.
RECURSIVE GetSubstitution(_, _, _, _)
GetSubstitution(matched, str, position, replacement) ==
  IF replacement = <<>> THEN <<>>
  ELSE IF Head(replacement) = "$" /\ Len(replacement) >= 2
    THEN LET n == replacement[2]
             rest == SubSeq(replacement, 3, Len(replacement))
         IN CASE n = "$" -> <<"$">> \o GetSubstitution(matched, str, position, rest)
              [] n = "&" -> matched \o GetSubstitution(matched, str, position, rest)
              [] n = "`" -> SubSeq(str, 1, position - 1)
                              \o GetSubstitution(matched, str, position, rest)
              [] n = "'" -> SubSeq(str, position + Len(matched), Len(str))
                              \o GetSubstitution(matched, str, position, rest)
              [] OTHER -> <<"$">> \o GetSubstitution(matched, str, position, Tail(replacement))
  ELSE <<Head(replacement)>> \o GetSubstitution(matched, str, position, Tail(replacement))

\* The text of str from cursor `from` on, with each match of `matches`
\* replaced by its substitution.
RECURSIVE ReplaceMatches(_, _, _, _)
ReplaceMatches(str, matches, from, replacement) ==
  IF matches = <<>> THEN SubSeq(str, from, Len(str))
  ELSE LET st == Head(matches)[1]
           en == Head(matches)[2]
       IN SubSeq(str, from, st - 1)
            \o GetSubstitution(SubSeq(str, st, en - 1), str, st, replacement)
            \o ReplaceMatches(str, Tail(matches), en, replacement)

\* A mutant of StringReplace without the 'g' flag: the first match only.
StringReplaceFirst(str, atoms, replacement) ==
  LET ms == MatchAll(atoms, str, 1)
  IN ReplaceMatches(str, IF ms = <<>> THEN ms ELSE <<Head(ms)>>, 1, replacement)

\* str.replace(regexp, replacement) for a global regexp.
StringReplace(str, atoms, replacement) ==
  ReplaceMatches(str, MatchAll(atoms, str, 1), 1, replacement)

(***************************************************************************)
(* utils/diff.ts: characterDiff.                                           *)
(***************************************************************************)
\* A mutant of CommonPrefixLength that finds no common prefix.
CommonPrefixLengthNone(oldText, newText, i) == i

\* The first loop of characterDiff: i after `while (i < maxLen && old[i] === new[i]) i++`.
RECURSIVE CommonPrefixLength(_, _, _)
CommonPrefixLength(oldText, newText, i) ==
  IF i < Min(Len(oldText), Len(newText)) /\ oldText[i + 1] = newText[i + 1]
    THEN CommonPrefixLength(oldText, newText, i + 1)
    ELSE i

\* A mutant of CommonSuffixLength whose scan is not stopped by the prefix.
RECURSIVE CommonSuffixLengthUnbounded(_, _, _, _)
CommonSuffixLengthUnbounded(oldText, newText, i, j) ==
  IF /\ j < Min(Len(oldText), Len(newText))
     /\ oldText[Len(oldText) - j] = newText[Len(newText) - j]
    THEN CommonSuffixLengthUnbounded(oldText, newText, i, j + 1)
    ELSE j

\* The second loop: j after `while (j < maxLen - i && old[old.length-1-j] === new[new.length-1-j]) j++`.
RECURSIVE CommonSuffixLength(_, _, _, _)
CommonSuffixLength(oldText, newText, i, j) ==
  IF /\ j < Min(Len(oldText), Len(newText)) - i
     /\ oldText[Len(oldText) - j] = newText[Len(newText) - j]
    THEN CommonSuffixLength(oldText, newText, i, j + 1)
    ELSE j

\* text.substring(from, to) for 0-based from and to: the two are clamped to
\* the text and swapped when from is the larger.
Substring(text, from, to) ==
  LET a == Max(0, Min(from, Len(text)))
      b == Max(0, Min(to, Len(text)))
  IN SubSeq(text, Min(a, b) + 1, Max(a, b))

\* The locals of characterDiff when it returns.
characterDiffLocals(oldText, newText) ==
  LET i == CommonPrefixLength(oldText, newText, 0)
      j == CommonSuffixLength(oldText, newText, i, 0)
  IN [i |-> i,
      j |-> j,
      commonPrefix |-> Substring(oldText, 0, i),
      commonSuffix |-> Substring(oldText, Len(oldText) - j, Len(oldText)),
      oldDiff |-> Substring(oldText, i, Len(oldText) - j),
      newDiff |-> Substring(newText, i, Len(newText) - j)]

\* A mutant of characterDiff whose changes is the sum of the two middles.
characterDiffSum(oldText, newText) ==
  LET l == characterDiffLocals(oldText, newText)
  IN [diff |-> l.commonPrefix \o <<"{", "-">> \o l.oldDiff \o <<"-", "}">>
                 \o <<"{", "+">> \o l.newDiff \o <<"+", "}">> \o l.commonSuffix,
      changes |-> Len(l.oldDiff) + Len(l.newDiff)]

characterDiff(oldText, newText) ==
  LET l == characterDiffLocals(oldText, newText)
  IN [diff |-> l.commonPrefix \o <<"{", "-">> \o l.oldDiff \o <<"-", "}">>
                 \o <<"{", "+">> \o l.newDiff \o <<"+", "}">> \o l.commonSuffix,
      changes |-> Max(Len(l.oldDiff), Len(l.newDiff))]

(***************************************************************************)
(* utils/diff.ts: lineDiff.                                                *)
(***************************************************************************)
\* text.split('\n'): the pieces of text between its newlines, one piece (the
\* empty string) for the empty text.
RECURSIVE SplitLines(_, _)
SplitLines(text, current) ==
  IF text = <<>> THEN <<current>>
  ELSE IF Head(text) = "\n" THEN <<current>> \o SplitLines(Tail(text), <<>>)
  ELSE SplitLines(Tail(text), Append(current, Head(text)))

\* lines.slice(from) for a 0-based from.
Slice(lines, from) == SubSeq(lines, from + 1, Len(lines))

\* lines.findIndex(l => l === x): the least 0-based index of x, or -1.
FindIndex(lines, x) ==
  LET found == { k \in 1..Len(lines) : lines[k] = x }
  IN IF found = {} THEN -1 ELSE (CHOOSE k \in found : \A o \in found : k <= o) - 1

\* A mutant of LineEntry that numbers the lines from 0.
LineEntryFromZero(type, line, content) ==
  [type |-> type, line |-> line - 1, content |-> content]

LineEntry(type, line, content) == [type |-> type, line |-> line, content |-> content]

\* The loop of lineDiff from cursors i and j (0-based) with the entries
\* pushed so far.
RECURSIVE LineDiffLoop(_, _, _, _, _)
LineDiffLoop(oldLines, newLines, i, j, diffs) ==
  IF ~(i < Len(oldLines) \/ j < Len(newLines)) THEN diffs
  ELSE IF i >= Len(oldLines)
    THEN LineDiffLoop(oldLines, newLines, i, j + 1,
                      Append(diffs, LineEntry("add", j + 1, newLines[j + 1])))
  ELSE IF j >= Len(newLines)
    THEN LineDiffLoop(oldLines, newLines, i + 1, j,
                      Append(diffs, LineEntry("remove", i + 1, oldLines[i + 1])))
  ELSE IF oldLines[i + 1] # newLines[j + 1]
    THEN LET oldNext == FindIndex(Slice(oldLines, i + 1), newLines[j + 1])
             newNext == FindIndex(Slice(newLines, j + 1), oldLines[i + 1])
         IN IF (oldNext = -1 \/ newNext # -1) /\ newNext < 3
              THEN LineDiffLoop(oldLines, newLines, i + 1, j,
                                Append(diffs, LineEntry("remove", i + 1, oldLines[i + 1])))
              ELSE LineDiffLoop(oldLines, newLines, i, j + 1,
                                Append(diffs, LineEntry("add", j + 1, newLines[j + 1])))
  ELSE LineDiffLoop(oldLines, newLines, i + 1, j + 1, diffs)

lineDiff(oldText, newText) ==
  LineDiffLoop(SplitLines(oldText, <<>>), SplitLines(newText, <<>>), 0, 0, <<>>)

(***************************************************************************)
(* utils/diff.ts: unifiedDiff.  The text returned is, hunk after hunk, the *)
(* header "@@ -a,b +c,d @@" and the lines of the hunk, each ended by a     *)
(* newline; the model keeps it as the sequence of its hunks, the four      *)
(* numbers of each header and each line as its one-character prefix and    *)
(* its content.  Beside them each line keeps the number of the line of     *)
(* oldLines or newLines it was taken from, which the text does not show.   *)
(***************************************************************************)
HunkLine(prefix, content, number) ==
  [prefix |-> prefix, content |-> content, number |-> number]

\* diffs.findIndex(d => (d.type === 'remove' && d.line === i + 1) ||
\*                      (d.type === 'add' && d.line === i + 1)), 0-based or -1
DiffIndex(diffs, i) ==
  LET found == { k \in 1..Len(diffs) : diffs[k].type \in {"remove", "add"}
                                         /\ diffs[k].line = i + 1 }
  IN IF found = {} THEN -1 ELSE (CHOOSE k \in found : \A o \in found : k <= o) - 1

\* diffs.findIndex(d => d.line > i + 1 && d.line <= i + 1 + contextLines),
\* for either type, 0-based or -1
NextDiffIndex(diffs, i, contextLines) ==
  LET found == { k \in 1..Len(diffs) : /\ diffs[k].type \in {"remove", "add"}
                                         /\ diffs[k].line > i + 1
                                         /\ diffs[k].line <= i + 1 + contextLines }
  IN IF found = {} THEN -1 ELSE (CHOOSE k \in found : \A o \in found : k <= o) - 1

\* The context lines ' ' + oldLines[j] pushed by a loop of j from `from`
\* while j < to, those with j < oldLines.length.
RECURSIVE ContextLinesFrom(_, _, _)
ContextLinesFrom(oldLines, from, to) ==
  IF from >= to THEN <<>>
  ELSE (IF from < Len(oldLines) THEN <<HunkLine(" ", oldLines[from + 1], from + 1)>>
                                ELSE <<>>)
         \o ContextLinesFrom(oldLines, from + 1, to)

\* currentHunk.push(' ' + ...), oldLineCount++, newLineCount++ for each of
\* the lines.
PushContext(st, lines) ==
  [st EXCEPT !.currentHunk = @ \o lines,
             !.oldLineCount = @ + Len(lines),
             !.newLineCount = @ + Len(lines)]

\* The locals of unifiedDiff before its loop, and after a hunk is closed.
NoHunk(result) ==
  [result |-> result, currentHunk |-> <<>>, hunkStart |-> -1,
   oldLineCount |-> 0, newLineCount |-> 0]

\* result += header + lines, and the reset of the hunk.
CloseHunk(st) ==
  NoHunk(Append(st.result,
                [oldStart |-> st.hunkStart + 1, oldCount |-> st.oldLineCount,
                 newStart |-> st.hunkStart + 1, newCount |-> st.newLineCount,
                 lines |-> st.currentHunk]))

\* The loop of unifiedDiff from line i (0-based) with the locals st.
RECURSIVE UnifiedDiffLoop(_, _, _, _, _, _)
UnifiedDiffLoop(oldLines, newLines, diffs, contextLines, i, st) ==
  IF i >= Max(Len(oldLines), Len(newLines)) THEN st.result
  ELSE LET diffIndex == DiffIndex(diffs, i)
           isDiff == diffIndex # -1
           started ==
             IF isDiff /\ st.hunkStart = -1
               THEN PushContext([st EXCEPT !.hunkStart = Max(0, i - contextLines)],
                                ContextLinesFrom(oldLines, Max(0, i - contextLines), i))
               ELSE st
           pushed ==
             IF isDiff
               THEN IF diffs[diffIndex + 1].type = "remove"
                      THEN [started EXCEPT
                              !.currentHunk = Append(@, HunkLine("-", oldLines[i + 1], i + 1)),
                              !.oldLineCount = @ + 1]
                      ELSE [started EXCEPT
                              !.currentHunk = Append(@, HunkLine("+", newLines[i + 1], i + 1)),
                              !.newLineCount = @ + 1]
             ELSE IF started.hunkStart # -1 /\ i < Len(oldLines)
               THEN PushContext(started, <<HunkLine(" ", oldLines[i + 1], i + 1)>>)
             ELSE started
           isLastLine == i = Max(Len(oldLines), Len(newLines)) - 1
           nextDiffIndex == NextDiffIndex(diffs, i, contextLines)
           closed ==
             IF pushed.hunkStart # -1 /\ (isLastLine \/ nextDiffIndex = -1)
               THEN LET contextEnd == Min(i + contextLines, Len(oldLines))
                    IN CloseHunk(PushContext(pushed,
                                             ContextLinesFrom(oldLines, i + 1, contextEnd)))
               ELSE pushed
       IN UnifiedDiffLoop(oldLines, newLines, diffs, contextLines, i + 1, closed)

unifiedDiff(oldText, newText, contextLines) ==
  UnifiedDiffLoop(SplitLines(oldText, <<>>), SplitLines(newText, <<>>),
                  lineDiff(oldText, newText), contextLines, 0, NoHunk(<<>>))

(***************************************************************************)
(* editCode.ts: the similarity finder.                                     *)
(***************************************************************************)
\* The loop of calculateSimilarity: the number of positions below
\* min(a.length, b.length) at which a and b agree.
RECURSIVE SimilarityMatches(_, _, _)
SimilarityMatches(a, b, i) ==
  IF i >= Min(Len(a), Len(b)) THEN 0
  ELSE (IF a[i + 1] = b[i + 1] THEN 1 ELSE 0) + SimilarityMatches(a, b, i + 1)

\* A mutant of calculateSimilarity that divides by the shorter length.
calculateSimilarityShorter(a, b) == <<SimilarityMatches(a, b, 0), Min(Len(a), Len(b))>>

\* calculateSimilarity returns matches / max(a.length, b.length); the model
\* keeps the fraction as <<numerator, denominator>>.
calculateSimilarity(a, b) == <<SimilarityMatches(a, b, 0), Max(Len(a), Len(b))>>

\* A mutant of AboveThreshold that lets a score of exactly 0.7 pass.
AboveThresholdInclusive(similarity) == similarity[1] * 10 >= 7 * similarity[2]

\* `similarity > 0.7`: no fraction with these small terms lies between 0.7
\* and the double nearest to it, and 7/10 itself divides to exactly that
\* double, so the comparison of doubles is the comparison of the fractions.
AboveThreshold(similarity) == similarity[1] * 10 > 7 * similarity[2]

\* content.substr(i, n) for a 0-based i.
Substr(content, i, n) == SubSeq(content, i + 1, Min(i + n, Len(content)))

\* findClosestMatch: None (<<>>) or <<characterDiff(window, searchString)>>
\* for the first window, from offset i on, that is more than 70% similar.
RECURSIVE ClosestMatchFrom(_, _, _)
ClosestMatchFrom(content, searchString, i) ==
  IF i >= Len(content) - (Len(searchString) \div 2) THEN <<>>
  ELSE LET testString == Substr(content, i, Len(searchString))
       IN IF AboveThreshold(calculateSimilarity(testString, searchString))
            THEN <<characterDiff(testString, searchString)>>
            ELSE ClosestMatchFrom(content, searchString, i + 1)

findClosestMatch(content, searchString) == ClosestMatchFrom(content, searchString, 0)


(***************************************************************************)
(* config.ts and utils/fileSystem.ts: paths and the storage.               *)
(***************************************************************************)
\* JavaScript's null and undefined, kept apart from every string.
Null == <<"null">>

Undefined == <<"undefined">>

\* configData.allowedDirectories (one short directory stands for the list).
allowedDirectories == { <<"/", "p">> }

\* The segments of a path between its '/' separators.
RECURSIVE PathSegments(_, _)
PathSegments(path, current) ==
  IF path = <<>> THEN <<current>>
  ELSE IF Head(path) = "/" THEN <<current>> \o PathSegments(Tail(path), <<>>)
  ELSE PathSegments(Tail(path), Append(current, Head(path)))

\* The segments with '.' and empty segments dropped and '..' resolved.
RECURSIVE ResolveSegments(_, _)
ResolveSegments(segments, kept) ==
  IF segments = <<>> THEN kept
  ELSE LET seg == Head(segments) IN
       IF seg = <<>> \/ seg = <<".">> THEN ResolveSegments(Tail(segments), kept)
       ELSE IF seg = <<".", ".">>
         THEN ResolveSegments(Tail(segments),
                              IF kept = <<>> THEN kept ELSE SubSeq(kept, 1, Len(kept) - 1))
       ELSE ResolveSegments(Tail(segments), Append(kept, seg))

RECURSIVE JoinSegments(_)
JoinSegments(segments) ==
  IF segments = <<>> THEN <<>>
  ELSE <<"/">> \o Head(segments) \o JoinSegments(Tail(segments))

\* path.normalize for an absolute POSIX path ('.' for the empty path).
normalize(path) ==
  IF path = <<>> THEN <<".">>
  ELSE LET joined == JoinSegments(ResolveSegments(PathSegments(path, <<>>), <<>>))
       IN IF joined = <<>> THEN <<"/">> ELSE joined

isPathAllowed(checkPath) ==
  \E dir \in allowedDirectories : StartsWith(checkPath, dir)

\* A mutant of BackupPathOf that leaves the time out of the name.
BackupPathOfNoTime(normalizedPath, time) ==
  normalizedPath \o <<".", "b", "a", "c", "k", "u", "p">>

\* `${normalizedPath}.backup-${Date.now()}`
BackupPathOf(normalizedPath, time) ==
  normalizedPath \o <<".", "b", "a", "c", "k", "u", "p", "-">> \o <<ToString(time)>>

\* A mutant of CopyFile that creates the destination without the content.
CopyFileEmpty(files, src, dst) == (dst :> <<>>) @@ files

\* fs.copy(src, dst) on a storage `files` (path -> content) holding src.
CopyFile(files, src, dst) == (dst :> files[src]) @@ files

\* A mutant of WriteFile that appends to the file.
WriteFileAppend(files, path, content) ==
  (path :> (IF path \in DOMAIN files THEN files[path] ELSE <<>>) \o content) @@ files

\* fs.writeFile(path, content, 'utf8').
WriteFile(files, path, content) == (path :> content) @@ files

(***************************************************************************)
(* editCode.ts: getParserForExtension and the extension of a path.         *)
(***************************************************************************)
UpperCase == <<"A", "B", "C", "D", "E", "F", "G", "H", "I", "J", "K", "L", "M",
               "N", "O", "P", "Q", "R", "S", "T", "U", "V", "W", "X", "Y", "Z">>

LowerCase == <<"a", "b", "c", "d", "e", "f", "g", "h", "i", "j", "k", "l", "m",
               "n", "o", "p", "q", "r", "s", "t", "u", "v", "w", "x", "y", "z">>

toLowerCase(s) ==
  [k \in 1..Len(s) |->
     IF \E u \in 1..Len(UpperCase) : UpperCase[u] = s[k]
       THEN LowerCase[CHOOSE u \in 1..Len(UpperCase) : UpperCase[u] = s[k]]
       ELSE s[k]]

\* filePath.split('.').pop() || ''
ExtensionOf(filePath) ==
  LET dots == { k \in 1..Len(filePath) : filePath[k] = "." }
  IN IF dots = {} THEN filePath
     ELSE SubSeq(filePath, (CHOOSE k \in dots : \A o \in dots : o <= k) + 1, Len(filePath))

getParserForExtension(extension) ==
  LET e == toLowerCase(extension) IN
  CASE e = <<"j", "s">> -> <<"babel">>
    [] e = <<"j", "s", "x">> -> <<"babel">>
    [] e = <<"t", "s">> -> <<"typescript">>
    [] e = <<"t", "s", "x">> -> <<"typescript">>
    [] e = <<"j", "s", "o", "n">> -> <<"json">>
    [] e = <<"c", "s", "s">> -> <<"css">>
    [] e = <<"s", "c", "s", "s">> -> <<"scss">>
    [] e = <<"h", "t", "m", "l">> -> <<"html">>
    [] e = <<"m", "d">> -> <<"markdown">>
    [] e = <<"y", "m", "l">> -> <<"yaml">>
    [] e = <<"y", "a", "m", "l">> -> <<"yaml">>
    [] OTHER -> Null


(***************************************************************************)
(* The inputs.                                                             *)
(***************************************************************************)
MaxClock == 1

\* The requests of a run: one edit request in Spec.
Reqs == {1, 2}

FileJs == <<"/", "p", "/", "f", ".", "j", "s">>

FileTxt == <<"/", "p", "/", "f", ".", "t", "x", "t">>

FileOutside == <<"/", "e", "/", "f", ".", "j", "s">>

\* A file in a sibling of the allowed directory whose name begins with the
\* allowed directory's name.
FileSibling == <<"/", "p", "q", "/", "f", ".", "j", "s">>

\* Enumerated texts: buffers and patterns over a letter and two
\* metacharacters.
TextChars == {"a", ".", "$"}

Buffers == SeqsOf(TextChars, 0, MaxBuf)

Patterns == SeqsOf(TextChars, 1, MaxPat)

\* Replacement strings: empty, plain, and '$' before '&', '$', a digit, a
\* backtick and a quote.
NewStrings ==
  { <<>>, <<"b">>, <<"$", "&">>, <<"$", "$">>, <<"$", "1">>, <<"$", "`">>, <<"$", "'">> }

\* Worked cases: the end-to-end case of test.js and of the specification, the
\* near miss of the similarity finder, a pattern full of metacharacters, a
\* pattern that occurs twice, and requests that lack a parameter.
HelloContent ==
  <<"H", "e", "l", "l", "o", " ", "w", "o", "r", "l", "d", "!", "\n",
    "G", "o", "o", "d", "b", "y", "e", ".", "\n">>

HelloOld == <<"H", "e", "l", "l", "o", " ", "w", "o", "r", "l", "d", "!">>

HelloNew == <<"H", "i", " ", "t", "h", "e", "r", "e", "!">>

HelloResult ==
  <<"H", "i", " ", "t", "h", "e", "r", "e", "!", "\n",
    "G", "o", "o", "d", "b", "y", "e", ".", "\n">>

OldNameContent ==
  <<"f", "u", "n", "c", "t", "i", "o", "n", " ", "o", "l", "d", "N", "a", "m", "e",
    "(", ")", " ", "{", "}">>

OldNamPattern ==
  <<"f", "u", "n", "c", "t", "i", "o", "n", " ", "o", "l", "d", "n", "a", "m",
    "(", ")", " ", "{", "}">>

MetaContent == <<"a", ".", "b", "*", "c", ";", "a", "x", "b", "c">>

MetaPattern == <<"a", ".", "b", "*", "c">>

TwiceContent == <<"x", "=", "1", ";", "x", "=", "1", ";">>

TwicePattern == <<"x", "=", "1">>

Cases ==
  { [content |-> HelloContent, oldString |-> HelloOld, newString |-> HelloNew],
    [content |-> OldNameContent, oldString |-> OldNamPattern, newString |-> <<"f">>],
    [content |-> MetaContent, oldString |-> MetaPattern, newString |-> <<"z">>],
    [content |-> TwiceContent, oldString |-> TwicePattern, newString |-> <<"y">>],
    [content |-> TwiceContent, oldString |-> TwicePattern, newString |-> <<"$", "1">>],
    [content |-> TwiceContent, oldString |-> TwicePattern, newString |-> <<"$", "`">>],
    [content |-> TwiceContent, oldString |-> TwicePattern, newString |-> <<"$", "'">>],
    [content |-> TwiceContent, oldString |-> <<>>, newString |-> <<"y">>],
    [content |-> TwiceContent, oldString |-> TwicePattern, newString |-> Undefined] }

\* A run: the content of the file at the request's path, <<>> for no file
\* or <<c>> for a file holding c; whether the storage and the formatter may
\* fail; and the request.
Run(content, mayFail, filePath, oldString, newString, backup, expected, format) ==
  [content |-> content, faults |-> mayFail,
   request |-> [filePath |-> filePath, oldString |-> oldString, newString |-> newString,
                createBackupFile |-> backup, expectedReplacements |-> expected,
                formatCode |-> format]]

(***************************************************************************)
(* The state.                                                              *)
(***************************************************************************)
VARIABLES
  disk,     \* the storage: path -> content, for the files that exist
  disk0,    \* the storage as it was when the run began (never assigned again)
  now,      \* the clock read by Date.now()
  faults,   \* whether the storage and the formatter may fail in this run
  pc,       \* request -> the step it is at
  req,      \* request -> req.body
  loc,      \* request -> the handler's local variables
  out,      \* request -> the responses sent, in order
  steps,    \* request -> the steps taken, in order
  call,     \* the call of a diff function under way: the function and its arguments
  ret,      \* what that call has returned: <<>> until it returns, then <<value>>
  msg,      \* the JSON-RPC message handed to the message handler
  replies,  \* the responses the message handler has returned, in order
  wf        \* the locals of the writeFile call under way

vars == <<disk, disk0, now, faults, pc, req, loc, out, steps, call, ret, msg, replies, wf>>

\* No call of a diff function, no message, no writeFile under way.
NoCall == [fn |-> "none"]

NoMessage == [jsonrpc |-> "none"]

NoWrite ==
  [pc |-> "Idle", filePath |-> <<>>, content |-> <<>>, createBackupFile |-> FALSE,
   originalContent |-> <<>>, backupPath |-> <<>>, fileExisted |-> FALSE, outcome |-> <<>>]

Quiet ==
  /\ call = NoCall
  /\ ret = <<>>
  /\ msg = NoMessage
  /\ replies = <<>>
  /\ wf = NoWrite

NoRequest ==
  [filePath |-> <<>>, oldString |-> <<>>, newString |-> <<>>,
   createBackupFile |-> FALSE, expectedReplacements |-> 0, formatCode |-> FALSE]

\* The locals before the handler has assigned them; replacementCount -1 and
\* formatRan FALSE until the count and the formatter have run.
NoLocals ==
  [fileContent |-> <<>>, originalContent |-> <<>>, backupPath |-> <<>>,
   replacementCount |-> -1, formatRan |-> FALSE]

\* The state after construction with request 1 received: run.content is <<>>
\* (no file) or <<c>> (the file at the request's path holds c).
InitRun(run) ==
  /\ disk = IF run.content = <<>> \/ run.request.filePath = <<>>
              THEN <<>>
              ELSE (normalize(run.request.filePath) :> run.content[1])
  /\ disk0 = disk
  /\ now = 0
  /\ faults = run.faults
  /\ pc = [r \in Reqs |-> IF r = 1 THEN "Start" ELSE "Idle"]
  /\ req = [r \in Reqs |-> IF r = 1 THEN run.request ELSE NoRequest]
  /\ loc = [r \in Reqs |-> NoLocals]
  /\ out = [r \in Reqs |-> <<>>]
  /\ steps = [r \in Reqs |-> <<>>]
  /\ Quiet

\* Runs over the enumerated texts (the handler's default flags, every
\* expected count, a storage that does not fail), runs over the worked cases
\* (every path, flag and expected count, a storage and a formatter that may
\* fail), and runs on a file that does not exist.
Init ==
  \/ \E b \in Buffers, p \in Patterns, e \in 1..MaxExp :
       \E n \in NewStrings \cup {p} :
         InitRun(Run(<<b>>, FALSE, FileJs, p, n, TRUE, e, FALSE))
  \/ \E k \in Cases, f \in {FileJs, FileTxt, FileOutside, FileSibling, <<>>},
        bk \in BOOLEAN, fm \in BOOLEAN, e \in 0..MaxExp :
       InitRun(Run(<<k.content>>, TRUE, f, k.oldString, k.newString, bk, e, fm))
  \/ \E bk \in BOOLEAN :
       InitRun(Run(<<>>, TRUE, FileJs, TwicePattern, <<"y">>, bk, 1, FALSE))


(***************************************************************************)
(* editCode.ts: editCodeHandler, one action per step.                      *)
(***************************************************************************)
Response(status, body) == [status |-> status, body |-> body]

ErrorBody(code) == [success |-> FALSE, error |-> [code |-> code]]

\* A mutant of Respond that sends its response a second time.
RespondTwice(r, response) ==
  /\ out' = [out EXCEPT ![r] = Append(Append(@, response), response)]
  /\ pc' = [pc EXCEPT ![r] = "Done"]

\* res.status(..).json(..) and the return that follows it.
Respond(r, response) ==
  /\ out' = [out EXCEPT ![r] = Append(@, response)]
  /\ pc' = [pc EXCEPT ![r] = "Done"]

\* A mutant of NextState that backs up after the write.
NextStateBackupLast(state, rq) ==
  CASE state = "Start" -> "Reading"
    [] state = "Reading" -> "Validating"
    [] state = "BackingUp" -> "Diffing"
    [] state = "Validating" -> "Replacing"
    [] state = "Replacing" -> IF rq.formatCode THEN "Formatting" ELSE "Writing"
    [] state = "Formatting" -> "Writing"
    [] state = "Writing" -> IF rq.createBackupFile THEN "BackingUp" ELSE "Diffing"
    [] state = "Diffing" -> "Done"

\* A mutant of NextState that validates before it backs up.
NextStateValidateFirst(state, rq) ==
  CASE state = "Start" -> "Reading"
    [] state = "Reading" -> "Validating"
    [] state = "BackingUp" -> "Replacing"
    [] state = "Validating" -> IF rq.createBackupFile THEN "BackingUp" ELSE "Replacing"
    [] state = "Replacing" -> IF rq.formatCode THEN "Formatting" ELSE "Writing"
    [] state = "Formatting" -> "Writing"
    [] state = "Writing" -> "Diffing"
    [] state = "Diffing" -> "Done"

\* The step that follows step `state` when it goes through.
NextState(state, rq) ==
  CASE state = "Start" -> "Reading"
    [] state = "Reading" -> IF rq.createBackupFile THEN "BackingUp" ELSE "Validating"
    [] state = "BackingUp" -> "Validating"
    [] state = "Validating" -> "Replacing"
    [] state = "Replacing" -> IF rq.formatCode THEN "Formatting" ELSE "Writing"
    [] state = "Formatting" -> "Writing"
    [] state = "Writing" -> "Diffing"
    [] state = "Diffing" -> "Done"

Goto(r, state) == pc' = [pc EXCEPT ![r] = NextState(state, req[r])]

Took(r, step) == steps' = [steps EXCEPT ![r] = Append(@, step)]

\* if (!filePath || !oldString || newString === undefined)
MissingParameters(rq) ==
  rq.filePath = <<>> \/ rq.oldString = <<>> \/ rq.newString = Undefined

\* A mutant of Start without the check of the parameters.
StartUnchecked(r) ==
  /\ pc[r] = "Start"
  /\ Goto(r, "Start")
  /\ UNCHANGED <<disk, disk0, now, faults, req, loc, out, steps, call, ret, msg, replies, wf>>

Start(r) ==
  /\ pc[r] = "Start"
  /\ IF MissingParameters(req[r])
       THEN Respond(r, Response(400, ErrorBody("MissingParameters")))
       ELSE Goto(r, "Start") /\ UNCHANGED out
  /\ UNCHANGED <<disk, disk0, now, faults, req, loc, steps, call, ret, msg, replies, wf>>

\* let fileContent = await safeReadFile(filePath), the rejection caught by
\* the handler's catch.
Reading(r) ==
  /\ pc[r] = "Reading"
  /\ LET normalizedPath == normalize(req[r].filePath) IN
     \/ /\ ~isPathAllowed(normalizedPath)
        /\ Respond(r, Response(500, ErrorBody("AccessDenied")))
        /\ UNCHANGED <<loc, steps>>
     \/ /\ isPathAllowed(normalizedPath)
        /\ normalizedPath \notin DOMAIN disk \/ faults
        /\ Respond(r, Response(500, ErrorBody("ReadFailed")))
        /\ Took(r, "read")
        /\ UNCHANGED loc
     \/ /\ isPathAllowed(normalizedPath)
        /\ normalizedPath \in DOMAIN disk
        /\ loc' = [loc EXCEPT ![r].fileContent = disk[normalizedPath],
                              ![r].originalContent = disk[normalizedPath]]
        /\ Took(r, "read")
        /\ Goto(r, "Reading")
        /\ UNCHANGED out
  /\ UNCHANGED <<disk, disk0, now, faults, req, call, ret, msg, replies, wf>>

\* backupPath = await createBackup(filePath), its failure logged and passed
\* over.  The clock has moved on by any amount since it was last read.
BackingUp(r) ==
  /\ pc[r] = "BackingUp"
  /\ LET normalizedPath == normalize(req[r].filePath) IN
     \E time \in (IF faults THEN now..MaxClock ELSE {now}) :
       /\ now' = time
       /\ \/ /\ isPathAllowed(normalizedPath)
             /\ normalizedPath \in DOMAIN disk
             /\ disk' = CopyFile(disk, normalizedPath, BackupPathOf(normalizedPath, time))
             /\ loc' = [loc EXCEPT ![r].backupPath = BackupPathOf(normalizedPath, time)]
             /\ Took(r, "backup")
          \/ /\ ~isPathAllowed(normalizedPath) \/ normalizedPath \notin DOMAIN disk \/ faults
             /\ Took(r, "backup-failed")
             /\ UNCHANGED <<disk, loc>>
  /\ Goto(r, "BackingUp")
  /\ UNCHANGED <<disk0, faults, req, out, call, ret, msg, replies, wf>>

\* A mutant of CountMismatchBody that reports the expected count.
CountMismatchBodyExpected(replacementCount, expectedReplacements) ==
  [success |-> FALSE,
   error |-> [code |-> "CountMismatch", found |-> replacementCount,
              expected |-> expectedReplacements],
   actualReplacements |-> expectedReplacements]

CountMismatchBody(replacementCount, expectedReplacements) ==
  [success |-> FALSE,
   error |-> [code |-> "CountMismatch", found |-> replacementCount,
              expected |-> expectedReplacements],
   actualReplacements |-> replacementCount]

\* suggestion: closestMatch ? { diff, changesCount } : null, as None (<<>>)
\* or <<suggestion>>.
NoMatchBody(closestMatch) ==
  [success |-> FALSE,
   error |-> [code |-> "NoMatch"],
   suggestion |-> IF closestMatch = <<>> THEN <<>>
                  ELSE <<[diff |-> closestMatch[1].diff,
                          changesCount |-> closestMatch[1].changes]>>]

\* (fileContent.match(new RegExp(escapeRegExp(oldString), 'g')) || []).length
CountOccurrences(fileContent, oldString) ==
  MatchCount(fileContent, RegExp(escapeRegExp(oldString)))

\* A mutant of Validating that compares the count with the expected number
\* before it looks for a count of zero.
ValidatingMismatchFirst(r) ==
  /\ pc[r] = "Validating"
  /\ LET replacementCount == CountOccurrences(loc[r].fileContent, req[r].oldString) IN
     /\ loc' = [loc EXCEPT ![r].replacementCount = replacementCount]
     /\ IF replacementCount # req[r].expectedReplacements
          THEN Respond(r, Response(400,
                 CountMismatchBody(replacementCount, req[r].expectedReplacements)))
        ELSE IF replacementCount = 0
          THEN Respond(r, Response(400,
                 NoMatchBody(findClosestMatch(loc[r].fileContent, req[r].oldString))))
        ELSE Goto(r, "Validating") /\ UNCHANGED out
  /\ Took(r, "validate")
  /\ UNCHANGED <<disk, disk0, now, faults, req, call, ret, msg, replies, wf>>

\* The count and the two rejections.
Validating(r) ==
  /\ pc[r] = "Validating"
  /\ LET replacementCount == CountOccurrences(loc[r].fileContent, req[r].oldString) IN
     /\ loc' = [loc EXCEPT ![r].replacementCount = replacementCount]
     /\ IF replacementCount = 0
          THEN Respond(r, Response(400,
                 NoMatchBody(findClosestMatch(loc[r].fileContent, req[r].oldString))))
        ELSE IF replacementCount # req[r].expectedReplacements
          THEN Respond(r, Response(400,
                 CountMismatchBody(replacementCount, req[r].expectedReplacements)))
        ELSE Goto(r, "Validating") /\ UNCHANGED out
  /\ Took(r, "validate")
  /\ UNCHANGED <<disk, disk0, now, faults, req, call, ret, msg, replies, wf>>

\* fileContent.replace(new RegExp(escapeRegExp(oldString), 'g'), newString)
ReplaceOccurrences(fileContent, oldString, newString) ==
  StringReplace(fileContent, RegExp(escapeRegExp(oldString)), newString)

Replacing(r) ==
  /\ pc[r] = "Replacing"
  /\ loc' = [loc EXCEPT ![r].fileContent =
               ReplaceOccurrences(loc[r].fileContent, req[r].oldString, req[r].newString)]
  /\ Took(r, "replace")
  /\ Goto(r, "Replacing")
  /\ UNCHANGED <<disk, disk0, now, faults, req, out, call, ret, msg, replies, wf>>

\* What prettier.format may return for a content: the content itself when it
\* is formatted already, or the content laid out anew (here: ended by a
\* newline).
Formatted(content) == { content, Append(content, "\n") }

\* A mutant of Formatting whose formatter failure ends the request.
FormattingFatal(r) ==
  /\ pc[r] = "Formatting"
  /\ LET parser == getParserForExtension(ExtensionOf(req[r].filePath)) IN
     \/ /\ parser = Null
        /\ Took(r, "format-skipped")
        /\ Goto(r, "Formatting")
        /\ UNCHANGED <<loc, out>>
     \/ /\ parser # Null
        /\ faults
        /\ Took(r, "format-failed")
        /\ Respond(r, Response(500, ErrorBody("FormatFailed")))
        /\ UNCHANGED loc
     \/ /\ parser # Null
        /\ \E content \in Formatted(loc[r].fileContent) :
             loc' = [loc EXCEPT ![r].fileContent = content, ![r].formatRan = TRUE]
        /\ Took(r, "format")
        /\ Goto(r, "Formatting")
        /\ UNCHANGED out
  /\ UNCHANGED <<disk, disk0, now, faults, req, call, ret, msg, replies, wf>>

\* The formatter: no parser for the extension, a formatter that throws, or a
\* formatted content.
Formatting(r) ==
  /\ pc[r] = "Formatting"
  /\ LET parser == getParserForExtension(ExtensionOf(req[r].filePath)) IN
     \/ /\ parser = Null
        /\ Took(r, "format-skipped")
        /\ UNCHANGED loc
     \/ /\ parser # Null
        /\ faults
        /\ Took(r, "format-failed")
        /\ UNCHANGED loc
     \/ /\ parser # Null
        /\ \E content \in Formatted(loc[r].fileContent) :
             loc' = [loc EXCEPT ![r].fileContent = content, ![r].formatRan = TRUE]
        /\ Took(r, "format")
  /\ Goto(r, "Formatting")
  /\ UNCHANGED <<disk, disk0, now, faults, req, out, call, ret, msg, replies, wf>>

\* A mutant of Writing that makes its replacement in the content the file
\* holds at the moment of the write.
WritingFresh(r) ==
  /\ pc[r] = "Writing"
  /\ LET normalizedPath == normalize(req[r].filePath) IN
     \/ /\ ~isPathAllowed(normalizedPath)
        /\ Respond(r, Response(500, ErrorBody("AccessDenied")))
        /\ UNCHANGED <<disk, steps>>
     \/ /\ isPathAllowed(normalizedPath)
        /\ faults
        /\ Respond(r, Response(500, ErrorBody("WriteFailed")))
        /\ Took(r, "write-failed")
        /\ UNCHANGED disk
     \/ /\ isPathAllowed(normalizedPath)
        /\ disk' = WriteFile(disk, normalizedPath,
                             IF normalizedPath \in DOMAIN disk
                               THEN ReplaceOccurrences(disk[normalizedPath],
                                                       req[r].oldString, req[r].newString)
                               ELSE loc[r].fileContent)
        /\ Took(r, "write")
        /\ Goto(r, "Writing")
        /\ UNCHANGED out
  /\ UNCHANGED <<disk0, now, faults, req, loc, call, ret, msg, replies, wf>>

\* await safeWriteFile(filePath, fileContent): the file written whole, or a
\* failure that leaves it as it was and is caught by the handler's catch.
Writing(r) ==
  /\ pc[r] = "Writing"
  /\ LET normalizedPath == normalize(req[r].filePath) IN
     \/ /\ ~isPathAllowed(normalizedPath)
        /\ Respond(r, Response(500, ErrorBody("AccessDenied")))
        /\ UNCHANGED <<disk, steps>>
     \/ /\ isPathAllowed(normalizedPath)
        /\ faults
        /\ Respond(r, Response(500, ErrorBody("WriteFailed")))
        /\ Took(r, "write-failed")
        /\ UNCHANGED disk
     \/ /\ isPathAllowed(normalizedPath)
        /\ disk' = WriteFile(disk, normalizedPath, loc[r].fileContent)
        /\ Took(r, "write")
        /\ Goto(r, "Writing")
        /\ UNCHANGED out
  /\ UNCHANGED <<disk0, now, faults, req, loc, call, ret, msg, replies, wf>>

\* A mutant of SuccessBody that reports the path of the backup it asked for,
\* made or not.
SuccessBodyBackupAsked(rq, lc, diff) ==
  [success |-> TRUE,
   filePath |-> rq.filePath,
   backupPath |-> IF rq.createBackupFile
                    THEN BackupPathOf(normalize(rq.filePath), 0)
                    ELSE Null,
   replacementCount |-> lc.replacementCount,
   changesCount |-> diff.changes,
   diff |-> diff.diff,
   formatted |-> rq.formatCode]

\* The response of a successful edit.
SuccessBody(rq, lc, diff) ==
  [success |-> TRUE,
   filePath |-> rq.filePath,
   backupPath |-> IF lc.backupPath = <<>> THEN Null ELSE lc.backupPath,
   replacementCount |-> lc.replacementCount,
   changesCount |-> diff.changes,
   diff |-> diff.diff,
   formatted |-> rq.formatCode]

Diffing(r) ==
  /\ pc[r] = "Diffing"
  /\ Respond(r, Response(200,
       SuccessBody(req[r], loc[r], characterDiff(req[r].oldString, req[r].newString))))
  /\ Took(r, "diff")
  /\ UNCHANGED <<disk, disk0, now, faults, req, loc, call, ret, msg, replies, wf>>

Next ==
  \E r \in Reqs :
    \/ Start(r)
    \/ Reading(r)
    \/ BackingUp(r)
    \/ Validating(r)
    \/ Replacing(r)
    \/ Formatting(r)
    \/ Writing(r)
    \/ Diffing(r)

Spec == Init /\ [][Next]_vars

(***************************************************************************)
(* Two edit requests under way at once: the handler is asynchronous, and   *)
(* the steps of two invocations interleave at its awaits.                  *)
(***************************************************************************)
PairContent == <<"a", "b">>

\* The requests of a pair: on the file, or on the backup of the file taken
\* at time 0.
PairPaths == { FileJs, BackupPathOf(FileJs, 0) }

PairRequest(filePath, oldString, newString, backup, format) ==
  [filePath |-> filePath, oldString |-> oldString, newString |-> newString,
   createBackupFile |-> backup, expectedReplacements |-> 1, formatCode |-> format]

PairInit ==
  /\ disk = (FileJs :> PairContent)
  /\ disk0 = disk
  /\ now = 0
  /\ faults = TRUE
  /\ pc = [r \in Reqs |-> "Start"]
  /\ \E f \in PairPaths, b1 \in BOOLEAN, b2 \in BOOLEAN, fm \in BOOLEAN :
       req = [r \in Reqs |->
                IF r = 1 THEN PairRequest(FileJs, <<"a">>, <<"x">>, b1, fm)
                         ELSE PairRequest(f, <<"b">>, <<"y">>, b2, FALSE)]
  /\ loc = [r \in Reqs |-> NoLocals]
  /\ out = [r \in Reqs |-> <<>>]
  /\ steps = [r \in Reqs |-> <<>>]
  /\ Quiet

PairSpec == PairInit /\ [][Next]_vars

\* The handler of request r moves on: to the step that follows or, with a
\* response, to its end.  Every step of the handler is a synchronous stretch
\* or the continuation of an await on a storage operation that returns or
\* throws, and the event loop runs every continuation that is ready, so a
\* handler that has not answered always has such a step to take.
Moved(r) ==
  /\ pc[r] \notin {"Idle", "Done"}
  /\ \E state \in {NextState(pc[r], req[r]), "Done"} : pc' = [pc EXCEPT ![r] = state]

\* One request over the enumerated texts on a storage that does not fail,
\* one request on a one-letter file or on no file (every path, flag and
\* expected count, present and missing parameters, a storage and a
\* formatter that may fail), or two interleaved requests.
FairInit ==
  \/ \E b \in Buffers, p \in Patterns, e \in 1..MaxExp :
       \E n \in NewStrings \cup {p} :
         InitRun(Run(<<b>>, FALSE, FileJs, p, n, TRUE, e, FALSE))
  \/ \E c \in {<<>>, << <<"a">> >>},
        f \in {FileJs, FileTxt, FileOutside, FileSibling, <<>>},
        o \in {<<>>, <<"a">>}, n \in {<<"b">>, Undefined},
        bk \in BOOLEAN, fm \in BOOLEAN, e \in 0..MaxExp :
       InitRun(Run(c, TRUE, f, o, n, bk, e, fm))
  \/ PairInit

\* Each request is scheduled for as long as it has a step to take.
FairSpec == FairInit /\ [][Next]_vars /\ \A r \in Reqs : WF_pc(Moved(r))

(***************************************************************************)
(* precision-editor-js/index.js: the MCP message handler and the functions *)
(* it executes.  editCode there is the twin of editCodeHandler: it returns *)
(* what the handler answers with status 200 and throws where the handler   *)
(* answers 400 or 500, so the steps above serve for both.                  *)
(***************************************************************************)
MaxId == 2

\* A JSON-RPC id: a number, or null.
NumberId(n) == [type |-> "number", value |-> n]

NullId == [type |-> "null", value |-> 0]

\* `message.id || null`: 0 is falsy.
IdOrNull(id) == IF id.type = "null" \/ id.value = 0 THEN NullId ELSE id

\* message.params.parameters, the fields a function does not take undefined.
Parameters(filePath, content, oldString, newString, backup, expected, format) ==
  [filePath |-> filePath, content |-> content, oldString |-> oldString,
   newString |-> newString, createBackupFile |-> backup,
   expectedReplacements |-> expected, formatCode |-> format]

NoParameters == Parameters(<<>>, Undefined, <<>>, Undefined, FALSE, 0, FALSE)

\* message.params: given or undefined.
Params(name, parameters) == [given |-> TRUE, name |-> name, parameters |-> parameters]

NoParams == [given |-> FALSE, name |-> "", parameters |-> NoParameters]

Message(jsonrpc, id, method, params) ==
  [jsonrpc |-> jsonrpc, id |-> id, method |-> method, params |-> params]

\* The calls of the functions that a message may ask for.
ExecuteParams ==
  { Params(name, NoParameters) : name \in {"status", "nope"} }
  \cup { Params("readFile", Parameters(f, Undefined, <<>>, Undefined, FALSE, 0, FALSE)) :
           f \in {FileJs, FileTxt, FileOutside, <<>>} }
  \cup { Params("writeFile", Parameters(f, c, <<>>, Undefined, bk, 0, FALSE)) :
           f \in {FileJs, FileTxt, FileOutside, <<>>}, c \in {<<"n">>, Undefined},
           bk \in BOOLEAN }
  \cup { Params("editCode", Parameters(FileJs, Undefined, o, HelloNew, bk, e, fm)) :
           o \in {HelloOld, <<"z">>, <<>>}, bk \in BOOLEAN, e \in 1..2, fm \in BOOLEAN }

Messages ==
  { Message(v, NumberId(n), m, NoParams) :
      v \in {"2.0", "1.0"}, n \in 0..MaxId, m \in {"initialize", "tools/list", "mcp/execute"} }
  \cup { Message(v, NumberId(n), "mcp/execute", ps) :
           v \in {"2.0", "1.0"}, n \in 0..MaxId, ps \in ExecuteParams }

\* The responses of the handler.
ResultResponse(id, result) ==
  [jsonrpc |-> "2.0", id |-> id, result |-> <<result>>, error |-> <<>>]

ErrorResponse(id, code) ==
  [jsonrpc |-> "2.0", id |-> id, result |-> <<>>, error |-> <<[code |-> code]>>]

\* const initialized = { capabilities: {} }
initialized == [capabilities |-> <<>>]

\* getStatus()
getStatus == [status |-> "running", version |-> "1.0.0"]

\* What a function has returned (ok) or thrown.
Outcome(ok, body) == [ok |-> ok, body |-> body]

\* readFile(filePath): the content and the metadata of the file, or an error
\* thrown.
readFile(files, mayFail, filePath) ==
  LET normalizedPath == normalize(filePath) IN
  IF filePath = <<>> THEN { Outcome(FALSE, ErrorBody("MissingParameters")) }
  ELSE IF ~isPathAllowed(normalizedPath) THEN { Outcome(FALSE, ErrorBody("AccessDenied")) }
  ELSE (IF normalizedPath \in DOMAIN files
          THEN { Outcome(TRUE, [success |-> TRUE, filePath |-> filePath,
                                content |-> files[normalizedPath]]) }
          ELSE {})
       \cup (IF normalizedPath \notin DOMAIN files \/ mayFail
               THEN { Outcome(FALSE, ErrorBody("ReadFailed")) }
               ELSE {})

\* A message has been received and no function is under way for it.
Received ==
  /\ msg # NoMessage
  /\ replies = <<>>
  /\ pc[1] = "Idle"
  /\ wf.pc = "Idle"

Reply(response) == replies' = Append(replies, response)

\* The message handler up to the function it executes: the response at once
\* for initialize, status, readFile, an unknown function, a message without
\* params and every other message; writeFile and editCode are started.
OnMessage ==
  /\ Received
  /\ IF msg.jsonrpc = "2.0" /\ msg.method = "initialize"
       THEN Reply(ResultResponse(msg.id, initialized)) /\ UNCHANGED <<pc, req, wf>>
     ELSE IF msg.jsonrpc = "2.0" /\ msg.method = "mcp/execute"
       THEN IF ~msg.params.given
              THEN Reply(ErrorResponse(IdOrNull(msg.id), -32603)) /\ UNCHANGED <<pc, req, wf>>
            ELSE LET name == msg.params.name
                     parameters == msg.params.parameters
                 IN CASE name = "readFile" ->
                           /\ \E o \in readFile(disk, faults, parameters.filePath) :
                                Reply(IF o.ok THEN ResultResponse(msg.id, o.body)
                                             ELSE ErrorResponse(msg.id, -32000))
                           /\ UNCHANGED <<pc, req, wf>>
                      [] name = "writeFile" ->
                           /\ wf' = [NoWrite EXCEPT !.pc = "Start",
                                                    !.filePath = parameters.filePath,
                                                    !.content = parameters.content,
                                                    !.createBackupFile = parameters.createBackupFile]
                           /\ UNCHANGED <<pc, req, replies>>
                      [] name = "editCode" ->
                           /\ pc' = [pc EXCEPT ![1] = "Start"]
                           /\ req' = [req EXCEPT ![1] =
                                        [filePath |-> parameters.filePath,
                                         oldString |-> parameters.oldString,
                                         newString |-> parameters.newString,
                                         createBackupFile |-> parameters.createBackupFile,
                                         expectedReplacements |-> parameters.expectedReplacements,
                                         formatCode |-> parameters.formatCode]]
                           /\ UNCHANGED <<replies, wf>>
                      [] name = "status" ->
                           Reply(ResultResponse(msg.id, getStatus)) /\ UNCHANGED <<pc, req, wf>>
                      [] OTHER ->
                           Reply(ErrorResponse(msg.id, -32000)) /\ UNCHANGED <<pc, req, wf>>
     ELSE Reply(ErrorResponse(IdOrNull(msg.id), -32601)) /\ UNCHANGED <<pc, req, wf>>
  /\ UNCHANGED <<disk, disk0, now, faults, loc, out, steps, call, ret, msg>>

\* writeFile up to `fileExisted = await fileExists(filePath)`.
WriteFileStart ==
  /\ wf.pc = "Start"
  /\ IF wf.filePath = <<>> \/ wf.content = Undefined
       THEN wf' = [wf EXCEPT !.pc = "Done",
                             !.outcome = <<Outcome(FALSE, ErrorBody("MissingParameters"))>>]
       ELSE LET fileExisted == normalize(wf.filePath) \in DOMAIN disk IN
            wf' = [wf EXCEPT !.fileExisted = fileExisted,
                             !.pc = IF fileExisted /\ wf.createBackupFile
                                      THEN "Backup" ELSE "Write"]
  /\ UNCHANGED <<disk, disk0, now, faults, pc, req, loc, out, steps, call, ret, msg, replies>>

\* The try block of writeFile: originalContent = await safeReadFile(filePath),
\* backupPath = await createBackup(filePath), a failure of either logged and
\* passed over.
WriteFileBackup ==
  /\ wf.pc = "Backup"
  /\ LET normalizedPath == normalize(wf.filePath) IN
     \E time \in (IF faults THEN now..MaxClock ELSE {now}) :
       /\ now' = time
       /\ \/ /\ isPathAllowed(normalizedPath)
             /\ normalizedPath \in DOMAIN disk
             /\ disk' = CopyFile(disk, normalizedPath, BackupPathOf(normalizedPath, time))
             /\ wf' = [wf EXCEPT !.pc = "Write",
                                 !.originalContent = disk[normalizedPath],
                                 !.backupPath = BackupPathOf(normalizedPath, time)]
          \/ /\ isPathAllowed(normalizedPath)
             /\ normalizedPath \in DOMAIN disk
             /\ faults
             /\ wf' = [wf EXCEPT !.pc = "Write", !.originalContent = disk[normalizedPath]]
             /\ UNCHANGED disk
          \/ /\ ~isPathAllowed(normalizedPath) \/ normalizedPath \notin DOMAIN disk \/ faults
             /\ wf' = [wf EXCEPT !.pc = "Write"]
             /\ UNCHANGED disk
  /\ UNCHANGED <<disk0, faults, pc, req, loc, out, steps, call, ret, msg, replies>>

\* The value writeFile returns.
WriteFileResult(w) ==
  LET hasDiff == w.fileExisted /\ w.originalContent # <<>>
      diff == characterDiff(w.originalContent, w.content)
  IN [success |-> TRUE,
      filePath |-> w.filePath,
      backupPath |-> IF w.backupPath = <<>> THEN Null ELSE w.backupPath,
      newFile |-> ~w.fileExisted,
      changesCount |-> IF hasDiff THEN diff.changes ELSE Len(w.content),
      diff |-> IF hasDiff THEN diff.diff ELSE Null]

\* await safeWriteFile(filePath, content), the diff and the return.
WriteFileWrite ==
  /\ wf.pc = "Write"
  /\ LET normalizedPath == normalize(wf.filePath) IN
     \/ /\ ~isPathAllowed(normalizedPath)
        /\ wf' = [wf EXCEPT !.pc = "Done",
                            !.outcome = <<Outcome(FALSE, ErrorBody("AccessDenied"))>>]
        /\ UNCHANGED disk
     \/ /\ isPathAllowed(normalizedPath)
        /\ faults
        /\ wf' = [wf EXCEPT !.pc = "Done",
                            !.outcome = <<Outcome(FALSE, ErrorBody("WriteFailed"))>>]
        /\ UNCHANGED disk
     \/ /\ isPathAllowed(normalizedPath)
        /\ disk' = WriteFile(disk, normalizedPath, wf.content)
        /\ wf' = [wf EXCEPT !.pc = "Done", !.outcome = <<Outcome(TRUE, WriteFileResult(wf))>>]
  /\ UNCHANGED <<disk0, now, faults, pc, req, loc, out, steps, call, ret, msg, replies>>

\* The function has returned or thrown: the response with the result, or
\* with the error -32000.
ExecuteReturn ==
  /\ msg # NoMessage
  /\ replies = <<>>
  /\ \/ /\ pc[1] = "Done"
        /\ Len(out[1]) = 1
        /\ Reply(IF out[1][1].status = 200
                   THEN ResultResponse(msg.id, out[1][1].body)
                   ELSE ErrorResponse(msg.id, -32000))
     \/ /\ wf.pc = "Done"
        /\ Reply(IF wf.outcome[1].ok
                   THEN ResultResponse(msg.id, wf.outcome[1].body)
                   ELSE ErrorResponse(msg.id, -32000))
  /\ UNCHANGED <<disk, disk0, now, faults, pc, req, loc, out, steps, call, ret, msg, wf>>

\* One message handed to the handler, the file of test.js in the storage.
McpInit ==
  /\ disk = (FileJs :> HelloContent)
  /\ disk0 = disk
  /\ now = 0
  /\ faults \in BOOLEAN
  /\ pc = [r \in Reqs |-> "Idle"]
  /\ req = [r \in Reqs |-> NoRequest]
  /\ loc = [r \in Reqs |-> NoLocals]
  /\ out = [r \in Reqs |-> <<>>]
  /\ steps = [r \in Reqs |-> <<>>]
  /\ call = NoCall
  /\ ret = <<>>
  /\ msg \in Messages
  /\ replies = <<>>
  /\ wf = NoWrite

McpNext ==
  \/ OnMessage
  \/ Next
  \/ WriteFileStart
  \/ WriteFileBackup
  \/ WriteFileWrite
  \/ ExecuteReturn

McpSpec == McpInit /\ [][McpNext]_vars

(***************************************************************************)
(* The diff functions of utils/diff.ts called on their own: a run is one   *)
(* call, its arguments drawn from the enumerated texts.                    *)
(***************************************************************************)
MaxText == 3

MaxLines == 3

MaxUnified == 4

MaxContext == 3

MaxContent == 5

MaxSearch == 4

\* Texts of characterDiff: every string over two letters.
DiffTexts == SeqsOf({"a", "b"}, 0, MaxText)

\* Lines ended by "\n" each but the last.
RECURSIVE JoinLines(_)
JoinLines(lines) ==
  IF Len(lines) <= 1 THEN (IF lines = <<>> THEN <<>> ELSE Head(lines))
  ELSE Head(lines) \o <<"\n">> \o JoinLines(Tail(lines))

\* Texts of lineDiff: one to MaxLines lines, each one of three one-letter
\* lines, and the two texts of the worked case of the specification.
LineTexts == { JoinLines(ls) : ls \in SeqsOf({<<"a">>, <<"b">>, <<"c">>}, 1, MaxLines) }

\* Contents and search strings of findClosestMatch.
Contents == SeqsOf({"a", "b"}, 0, MaxContent)

SearchStrings == SeqsOf({"a", "b"}, 0, MaxSearch)

\* Texts of unifiedDiff: one to MaxUnified lines, each one of two one-letter
\* lines; and its numbers of context lines, the default 3 among them.
UnifiedTexts == { JoinLines(ls) : ls \in SeqsOf({<<"a">>, <<"b">>}, 1, MaxUnified) }

ContextLines == 0..MaxContext

AbcText == <<"a", "\n", "b", "\n", "c">>

AxcText == <<"a", "\n", "x", "\n", "c">>

\* No edit request in the run.
IdleEdit ==
  /\ disk = <<>>
  /\ disk0 = <<>>
  /\ now = 0
  /\ faults = FALSE
  /\ pc = [r \in Reqs |-> "Idle"]
  /\ req = [r \in Reqs |-> NoRequest]
  /\ loc = [r \in Reqs |-> NoLocals]
  /\ out = [r \in Reqs |-> <<>>]
  /\ steps = [r \in Reqs |-> <<>>]

DiffCall(fn, oldText, newText) == [fn |-> fn, oldText |-> oldText, newText |-> newText]

UnifiedDiffArguments(oldText, newText, contextLines) ==
  [fn |-> "unifiedDiff", oldText |-> oldText, newText |-> newText,
   contextLines |-> contextLines]

DiffInit ==
  /\ IdleEdit
  /\ msg = NoMessage
  /\ replies = <<>>
  /\ wf = NoWrite
  /\ ret = <<>>
  /\ \/ \E o \in DiffTexts, n \in DiffTexts : call = DiffCall("characterDiff", o, n)
     \/ \E o \in LineTexts, n \in LineTexts : call = DiffCall("lineDiff", o, n)
     \/ call = DiffCall("lineDiff", AbcText, AxcText)
     \/ \E c \in Contents, p \in SearchStrings : call = DiffCall("findClosestMatch", c, p)
     \/ \E o \in UnifiedTexts, n \in UnifiedTexts, c \in ContextLines :
          call = UnifiedDiffArguments(o, n, c)
     \/ call = DiffCall("findClosestMatch", OldNameContent, OldNamPattern)

\* characterDiff(oldText, newText) runs and returns; its locals are kept
\* beside the value returned.
CharacterDiffCall ==
  /\ call.fn = "characterDiff"
  /\ ret = <<>>
  /\ ret' = <<[value |-> characterDiff(call.oldText, call.newText),
               locals |-> characterDiffLocals(call.oldText, call.newText)]>>
  /\ UNCHANGED <<disk, disk0, now, faults, pc, req, loc, out, steps, call, msg, replies, wf>>

\* lineDiff(oldText, newText) runs and returns.
LineDiffCall ==
  /\ call.fn = "lineDiff"
  /\ ret = <<>>
  /\ ret' = <<[value |-> lineDiff(call.oldText, call.newText)]>>
  /\ UNCHANGED <<disk, disk0, now, faults, pc, req, loc, out, steps, call, msg, replies, wf>>

\* findClosestMatch(content, searchString) runs and returns; the content is
\* the call's first text and the search string its second.
FindClosestMatchCall ==
  /\ call.fn = "findClosestMatch"
  /\ ret = <<>>
  /\ ret' = <<[value |-> findClosestMatch(call.oldText, call.newText)]>>
  /\ UNCHANGED <<disk, disk0, now, faults, pc, req, loc, out, steps, call, msg, replies, wf>>

\* unifiedDiff(oldText, newText, contextLines) runs and returns; its local
\* diffs is kept beside the value returned.
UnifiedDiffCall ==
  /\ call.fn = "unifiedDiff"
  /\ ret = <<>>
  /\ ret' = <<[value |-> unifiedDiff(call.oldText, call.newText, call.contextLines),
               diffs |-> lineDiff(call.oldText, call.newText)]>>
  /\ UNCHANGED <<disk, disk0, now, faults, pc, req, loc, out, steps, call, msg, replies, wf>>

DiffNext ==
  \/ CharacterDiffCall
  \/ LineDiffCall
  \/ FindClosestMatchCall
  \/ UnifiedDiffCall

DiffSpec == DiffInit /\ [][DiffNext]_vars


(***************************************************************************)
(* The vocabulary of the properties, defined apart from the code above.    *)
(***************************************************************************)
\* P stands in B at index i, character for character.
OccursAt(B, P, i) ==
  /\ i + Len(P) - 1 <= Len(B)
  /\ \A k \in 1..Len(P) : B[i + k - 1] = P[k]

\* The start indices of the non-overlapping literal occurrences of P in B,
\* scanning left to right from index i, each occurrence consuming its span.
RECURSIVE LiteralOccurrences(_, _, _)
LiteralOccurrences(B, P, i) ==
  IF i + Len(P) - 1 > Len(B) THEN <<>>
  ELSE IF OccursAt(B, P, i) THEN <<i>> \o LiteralOccurrences(B, P, i + Len(P))
  ELSE LiteralOccurrences(B, P, i + 1)

LiteralCount(B, P) == Len(LiteralOccurrences(B, P, 1))

\* B from index `from` on, with the occurrences of P at `starts` each
\* replaced by N inserted character for character.
RECURSIVE LiteralReplaceAt(_, _, _, _, _)
LiteralReplaceAt(B, P, N, starts, from) ==
  IF starts = <<>> THEN SubSeq(B, from, Len(B))
  ELSE SubSeq(B, from, Head(starts) - 1) \o N
         \o LiteralReplaceAt(B, P, N, Tail(starts), Head(starts) + Len(P))

LiteralReplace(B, P, N) == LiteralReplaceAt(B, P, N, LiteralOccurrences(B, P, 1), 1)

\* B from index `from` on, with the occurrences of P at the indices of
\* `starts` that are in `chosen` each replaced by the text the replacement
\* value N stands for at that occurrence, the others left in place.
RECURSIVE SubstituteAt(_, _, _, _, _, _)
SubstituteAt(B, P, N, starts, chosen, from) ==
  IF starts = <<>> THEN SubSeq(B, from, Len(B))
  ELSE SubSeq(B, from, Head(starts) - 1)
         \o (IF Head(starts) \in chosen THEN GetSubstitution(P, B, Head(starts), N) ELSE P)
         \o SubstituteAt(B, P, N, Tail(starts), chosen, Head(starts) + Len(P))

OccurrenceSet(B, P) ==
  { LiteralOccurrences(B, P, 1)[k] : k \in 1..LiteralCount(B, P) }

\* Every counted occurrence substituted.
AllSubstituted(B, P, N) ==
  SubstituteAt(B, P, N, LiteralOccurrences(B, P, 1), OccurrenceSet(B, P), 1)

\* Some but not all of the occurrences substituted.
PartlySubstituted(B, P, N) ==
  { SubstituteAt(B, P, N, LiteralOccurrences(B, P, 1), chosen, 1) :
      chosen \in (SUBSET OccurrenceSet(B, P)) \ { {}, OccurrenceSet(B, P) } }

\* The character diff of two strings, stated by what it is: the longest
\* common prefix, the longest common suffix of what remains, and the two
\* middles between them in braces.
DiffOf(oldText, newText) ==
  LET least == Min(Len(oldText), Len(newText))
      i == CHOOSE n \in 0..least :
             /\ \A k \in 1..n : oldText[k] = newText[k]
             /\ n < least => oldText[n + 1] # newText[n + 1]
      j == CHOOSE n \in 0..(least - i) :
             /\ \A k \in 0..(n - 1) : oldText[Len(oldText) - k] = newText[Len(newText) - k]
             /\ n < least - i => oldText[Len(oldText) - n] # newText[Len(newText) - n]
  IN [diff |-> SubSeq(oldText, 1, i)
                 \o <<"{", "-">> \o SubSeq(oldText, i + 1, Len(oldText) - j) \o <<"-", "}">>
                 \o <<"{", "+">> \o SubSeq(newText, i + 1, Len(newText) - j) \o <<"+", "}">>
                 \o SubSeq(newText, Len(newText) - j + 1, Len(newText)),
      changes |-> Max(Len(oldText), Len(newText)) - i - j]

Has(r, step) == \E k \in 1..Len(steps[r]) : steps[r][k] = step

IndexOf(r, step) == CHOOSE k \in 1..Len(steps[r]) : steps[r][k] = step

Target(r) == normalize(req[r].filePath)

Finished(r) == pc[r] = "Done" /\ Len(out[r]) = 1

Succeeded(r) == Finished(r) /\ out[r][1].body.success

RejectedAs(r, code) ==
  /\ Finished(r)
  /\ ~out[r][1].body.success
  /\ out[r][1].body.error.code = code

\* The validation of r has run on the buffer it read.
Validated(r) == loc[r].replacementCount # -1

ContainsSpecial(P) == \E k \in 1..Len(P) : P[k] \in SpecialChars

\* The files of the storage that were not there when the run began.
NewFiles == DOMAIN disk \ DOMAIN disk0

\* The storage holds what it held when the run began.
Untouched == \A p \in DOMAIN disk0 : p \in DOMAIN disk /\ disk[p] = disk0[p]

(***************************************************************************)
(* C1.  For every buffer and every non-empty pattern, the occurrence count *)
(* the edit computes is the number of non-overlapping literal occurrences  *)
(* of the pattern in the buffer, scanning left to right, also when the     *)
(* pattern contains regular-expression metacharacters.                     *)
(***************************************************************************)
C1_CountIsLiteral ==
  \A r \in Reqs :
    Validated(r) =>
      loc[r].replacementCount = LiteralCount(loc[r].originalContent, req[r].oldString)

\* A pattern with metacharacters has been counted, and read as a regular
\* expression it would have given another count.
C1_Witness ==
  \E r \in Reqs :
    /\ Validated(r)
    /\ ContainsSpecial(req[r].oldString)
    /\ loc[r].replacementCount >= 1
    /\ MatchCount(loc[r].originalContent, RegExp(req[r].oldString)) # loc[r].replacementCount

(***************************************************************************)
(* C2.  On a successful edit without formatting, the content written is    *)
(* the buffer read with exactly the counted occurrences each replaced by   *)
(* newPattern inserted character for character, whatever newPattern holds. *)
(***************************************************************************)
C2_WrittenIsLiteralReplacement ==
  \A r \in Reqs :
    (Succeeded(r) /\ ~req[r].formatCode) =>
      disk[Target(r)] =
        LiteralReplace(loc[r].originalContent, req[r].oldString, req[r].newString)

(***************************************************************************)
(* C3.  An edit with oldPattern = newPattern = P, P occurring in the       *)
(* buffer and expected as often as it occurs, no formatting, writes a      *)
(* buffer equal to the one read and reports changesCount 0.                *)
(***************************************************************************)
C3_SamePatternChangesNothing ==
  \A r \in Reqs :
    (/\ Succeeded(r)
     /\ ~req[r].formatCode
     /\ req[r].oldString = req[r].newString) =>
      /\ disk[Target(r)] = loc[r].originalContent
      /\ out[r][1].body.changesCount = 0

(***************************************************************************)
(* C4.  When oldPattern occurs k > 0 times and k differs from              *)
(* expectedReplacements, the request is rejected as a count mismatch whose *)
(* actualReplacements is k, and the file is not written.                   *)
(***************************************************************************)
C4_MismatchReportsTrueCount ==
  \A r \in Reqs :
    LET k == LiteralCount(loc[r].originalContent, req[r].oldString) IN
    (Validated(r) /\ k > 0 /\ k # req[r].expectedReplacements) =>
      /\ pc[r] = "Done"
      /\ RejectedAs(r, "CountMismatch")
      /\ out[r][1].status = 400
      /\ out[r][1].body.actualReplacements = k
      /\ ~Has(r, "write")
      /\ disk[Target(r)] = loc[r].originalContent

\* One expected, two found, two reported.
C4_Witness ==
  \E r \in Reqs :
    /\ RejectedAs(r, "CountMismatch")
    /\ req[r].expectedReplacements = 1
    /\ out[r][1].body.actualReplacements = 2
    /\ LiteralCount(loc[r].originalContent, req[r].oldString) = 2

(***************************************************************************)
(* C5, as claimed.  The edit of "function oldName() {}" with the pattern   *)
(* "function oldnam() {}" is rejected as NoMatch with a similarity         *)
(* suggestion that is not null.                                            *)
(***************************************************************************)
C5_NearMissGetsSuggestion ==
  \A r \in Reqs :
    (/\ Validated(r)
     /\ loc[r].originalContent = OldNameContent
     /\ req[r].oldString = OldNamPattern) =>
      /\ RejectedAs(r, "NoMatch")
      /\ out[r][1].body.suggestion # <<>>

\* The window of B of length n at 0-based offset i, and the number of
\* positions at which it agrees with P.
WindowAt(B, i, n) == SubSeq(B, i + 1, Min(i + n, Len(B)))

Agreements(w, P) == Cardinality({ k \in 1..Min(Len(w), Len(P)) : w[k] = P[k] })

(***************************************************************************)
(* C5, amended.  The edit of "function oldName() {}" with the pattern      *)
(* "function oldnam() {}" is rejected as NoMatch and the suggestion is     *)
(* null: the window at the position of oldName (offset 0) agrees with the  *)
(* pattern at 14 of 20 positions, a score of exactly 0.7, which is not     *)
(* strictly greater than 0.7, and no other window scores higher.           *)
(***************************************************************************)
C5_NearMissScoresExactlyThreshold ==
  \A r \in Reqs :
    (/\ Validated(r)
     /\ loc[r].originalContent = OldNameContent
     /\ req[r].oldString = OldNamPattern) =>
      /\ RejectedAs(r, "NoMatch")
      /\ out[r][1].status = 400
      /\ out[r][1].body.suggestion = <<>>
      /\ Agreements(WindowAt(OldNameContent, 0, Len(OldNamPattern)), OldNamPattern) = 14
      /\ Len(OldNamPattern) = 20
      /\ \A i \in 0..(Len(OldNameContent) - 1) :
           Agreements(WindowAt(OldNameContent, i, Len(OldNamPattern)), OldNamPattern) <= 14

\* The near miss has been rejected without a suggestion.
C5_Witness ==
  \E r \in Reqs :
    /\ RejectedAs(r, "NoMatch")
    /\ loc[r].originalContent = OldNameContent
    /\ req[r].oldString = OldNamPattern
    /\ out[r][1].body.suggestion = <<>>

(***************************************************************************)
(* C6.  When createBackup is requested and the backup succeeds, the backup *)
(* copy is complete before the write to the target starts, and at the      *)
(* moment of the write the backup holds exactly the content the target had *)
(* before the write.                                                       *)
(***************************************************************************)
C6_BackupBeforeWrite ==
  \A r \in Reqs :
    (req[r].createBackupFile /\ loc[r].backupPath # <<>>) =>
      /\ loc[r].backupPath \in DOMAIN disk
      /\ Has(r, "backup")
      /\ pc[r] = "Writing" =>
           /\ ~Has(r, "write")
           /\ disk[loc[r].backupPath] = disk[Target(r)]
      /\ Has(r, "write") =>
           /\ IndexOf(r, "backup") < IndexOf(r, "write")
           /\ disk[loc[r].backupPath] = disk0[Target(r)]
           /\ disk[loc[r].backupPath] = loc[r].originalContent

\* The write has changed the target, and the backup made before it holds
\* what the target held.
C6_Witness ==
  \E r \in Reqs :
    /\ req[r].createBackupFile
    /\ loc[r].backupPath # <<>>
    /\ Has(r, "write")
    /\ disk[Target(r)] # disk0[Target(r)]
    /\ disk[loc[r].backupPath] = disk0[Target(r)]

C8_AllOrNothing ==
  \A r \in Reqs :
    Finished(r) =>
      LET all == AllSubstituted(loc[r].originalContent, req[r].oldString, req[r].newString) IN
      IF Succeeded(r)
        THEN /\ loc[r].originalContent = disk0[Target(r)]
             /\ LiteralCount(loc[r].originalContent, req[r].oldString)
                  = out[r][1].body.replacementCount
             /\ disk[Target(r)] \in (IF loc[r].formatRan THEN Formatted(all) ELSE {all})
             /\ \/ disk[Target(r)] = all
                \/ disk[Target(r)] \notin
                     PartlySubstituted(loc[r].originalContent, req[r].oldString, req[r].newString)
        ELSE Untouched

\* A success that replaced two occurrences, where replacing one of them
\* would have left another content.
C8_Witness ==
  \E r \in Reqs :
    /\ Succeeded(r)
    /\ out[r][1].body.replacementCount = 2
    /\ disk[Target(r)] # disk0[Target(r)]
    /\ PartlySubstituted(loc[r].originalContent, req[r].oldString, req[r].newString) # {}
    /\ disk[Target(r)] \notin
         PartlySubstituted(loc[r].originalContent, req[r].oldString, req[r].newString)

(***************************************************************************)
(* C9.  End to end: when oldPattern occurs exactly expectedReplacements    *)
(* times, createBackup is true and no storage step fails, the outcome has  *)
(* success = true, replacementCount = expectedReplacements, a backupPath   *)
(* that is not null, the diff of oldPattern against newPattern (not of the *)
(* whole file), and the file then reads as the replaced content:           *)
(* "Hello world!\nGoodbye.\n" becomes "Hi there!\nGoodbye.\n".             *)
(***************************************************************************)
StorageFailed(r) ==
  Has(r, "backup-failed") \/ Has(r, "write-failed") \/ RejectedAs(r, "ReadFailed")

C9_EndToEnd ==
  \A r \in Reqs :
    (/\ Finished(r)
     /\ ~MissingParameters(req[r])
     /\ Target(r) \in DOMAIN disk0
     /\ isPathAllowed(Target(r))
     /\ req[r].createBackupFile
     /\ req[r].expectedReplacements >= 1
     /\ LiteralCount(disk0[Target(r)], req[r].oldString) = req[r].expectedReplacements
     /\ ~StorageFailed(r)) =>
      LET body == out[r][1].body
          expected == DiffOf(req[r].oldString, req[r].newString)
      IN /\ out[r][1].status = 200
         /\ body.success
         /\ body.replacementCount = req[r].expectedReplacements
         /\ body.backupPath # Null
         /\ body.backupPath \in DOMAIN disk
         /\ body.diff = expected.diff
         /\ body.changesCount = expected.changes
         /\ disk[Target(r)] = loc[r].fileContent
         /\ ~loc[r].formatRan =>
              disk[Target(r)] =
                AllSubstituted(disk0[Target(r)], req[r].oldString, req[r].newString)
         /\ (disk0[Target(r)] = HelloContent /\ req[r].oldString = HelloOld
               /\ req[r].newString = HelloNew /\ ~req[r].formatCode) =>
              disk[Target(r)] = HelloResult

\* The end-to-end case of test.js has run to its response.
C9_Witness ==
  \E r \in Reqs :
    /\ Succeeded(r)
    /\ disk0[Target(r)] = HelloContent
    /\ req[r].oldString = HelloOld
    /\ req[r].newString = HelloNew
    /\ req[r].expectedReplacements = 1
    /\ req[r].createBackupFile
    /\ ~req[r].formatCode
    /\ out[r][1].body.backupPath # Null
    /\ disk[Target(r)] = HelloResult
    /\ out[r][1].body.diff # DiffOf(disk0[Target(r)], disk[Target(r)]).diff

(***************************************************************************)
(* C10.  If the formatter step fails on an edit with formatAfterEdit set,  *)
(* the outcome's formatted field is false; formatted is true only when the *)
(* formatter ran and its output is what was written.                       *)
(***************************************************************************)
C10_FormattedMeansFormatted ==
  \A r \in Reqs :
    Succeeded(r) =>
      /\ Has(r, "format-failed") => ~out[r][1].body.formatted
      /\ out[r][1].body.formatted => (Has(r, "format") /\ loc[r].formatRan)

(***************************************************************************)
(* C11.  A formatter failure never blocks the edit: when formatAfterEdit   *)
(* is set and the formatter throws, the request still reaches Writing, the *)
(* content written is the unformatted replaced buffer, and the request     *)
(* ends in success (the write itself not failing).                         *)
(***************************************************************************)
C11_FormatFailureNotFatal ==
  \A r \in Reqs :
    Has(r, "format-failed") =>
      LET replaced == AllSubstituted(loc[r].originalContent, req[r].oldString, req[r].newString)
      IN /\ req[r].formatCode
         /\ pc[r] \in {"Writing", "Diffing", "Done"}
         /\ ~loc[r].formatRan
         /\ loc[r].fileContent = replaced
         /\ Has(r, "write") => disk[Target(r)] = replaced
         /\ (pc[r] = "Done" /\ ~Has(r, "write-failed")) =>
              /\ Succeeded(r)
              /\ out[r][1].status = 200
              /\ Has(r, "write")

\* The formatter has thrown, and the edit has been written and answered with
\* success.
C11_Witness ==
  \E r \in Reqs :
    /\ Succeeded(r)
    /\ Has(r, "format-failed")
    /\ disk[Target(r)] # disk0[Target(r)]
    /\ disk[Target(r)] =
         AllSubstituted(loc[r].originalContent, req[r].oldString, req[r].newString)

(***************************************************************************)
(* C12.  A backup failure is not fatal: when createBackup is set and the   *)
(* backup copy fails, a request whose validation succeeds still replaces,  *)
(* writes and ends in success, with backupPath null in the outcome; no     *)
(* backup file is reported that does not exist.                            *)
(***************************************************************************)
C12_BackupFailureNotFatal ==
  \A r \in Reqs :
    /\ Has(r, "backup-failed") =>
         /\ req[r].createBackupFile
         /\ loc[r].backupPath = <<>>
         /\ (/\ pc[r] = "Done"
             /\ Validated(r)
             /\ LiteralCount(loc[r].originalContent, req[r].oldString) >= 1
             /\ LiteralCount(loc[r].originalContent, req[r].oldString)
                  = req[r].expectedReplacements
             /\ ~Has(r, "write-failed")) =>
              /\ Succeeded(r)
              /\ Has(r, "replace")
              /\ Has(r, "write")
              /\ out[r][1].body.backupPath = Null
    /\ (Succeeded(r) /\ out[r][1].body.backupPath # Null) =>
         /\ Has(r, "backup")
         /\ out[r][1].body.backupPath \in DOMAIN disk

\* The backup copy has failed, and the edit has been written and answered
\* with success and no backup path.
C12_Witness ==
  \E r \in Reqs :
    /\ Succeeded(r)
    /\ Has(r, "backup-failed")
    /\ out[r][1].body.backupPath = Null
    /\ NewFiles = {}
    /\ disk[Target(r)] # disk0[Target(r)]

(***************************************************************************)
(* C13.  A request with an empty oldPattern, and a request whose path is   *)
(* not approved by the path-validation gate, are rejected before any       *)
(* storage operation: no read, no backup copy and no write is performed in *)
(* any step of such a request.                                             *)
(***************************************************************************)
C13_RejectedBeforeStorage ==
  \A r \in Reqs :
    (pc[r] # "Idle" /\ (req[r].oldString = <<>> \/ ~isPathAllowed(Target(r)))) =>
      /\ steps[r] = <<>>
      /\ pc[r] \in {"Start", "Reading", "Done"}
      /\ pc[r] = "Reading" => req[r].oldString # <<>>
      /\ pc[r] = "Done" =>
           /\ Finished(r)
           /\ ~out[r][1].body.success
           /\ out[r][1].body.error.code \in {"MissingParameters", "AccessDenied"}
      /\ (\A q \in Reqs \ {r} : steps[q] = <<>>) => disk = disk0

\* A request with an empty oldPattern on a file that exists in an allowed
\* directory has been rejected without a storage operation.
C13_Witness ==
  \E r \in Reqs :
    /\ RejectedAs(r, "MissingParameters")
    /\ req[r].oldString = <<>>
    /\ isPathAllowed(Target(r))
    /\ Target(r) \in DOMAIN disk0
    /\ steps[r] = <<>>

\* The path lies inside an allowed directory: the directory itself or a
\* descendant of it.
InsideAllowed(path) ==
  \E dir \in allowedDirectories : path = dir \/ StartsWith(path, Append(dir, "/"))

(***************************************************************************)
(* C14.  Path safety: every read, write and backup copy targets a path     *)
(* inside one of the allowed directories (the directory itself or a        *)
(* descendant); a path outside every allowed directory, such as a sibling  *)
(* whose name merely begins with an allowed directory's name, is never     *)
(* read, written or backed up.                                             *)
(***************************************************************************)
C14_PathSafety ==
  /\ \A r \in Reqs : steps[r] # <<>> => InsideAllowed(Target(r))
  /\ \A p \in DOMAIN disk : (p \notin DOMAIN disk0 \/ disk[p] # disk0[p]) => InsideAllowed(p)

(***************************************************************************)
(* The vocabulary of the properties of the diff functions.                 *)
(***************************************************************************)
\* A call of fn has returned.
Returned(fn) == call.fn = fn /\ ret # <<>>

\* The first n characters of a and of b are the same.
CommonPrefix(a, b, n) ==
  /\ n <= Min(Len(a), Len(b))
  /\ \A k \in 1..n : a[k] = b[k]

\* The last n characters of a and of b are the same.
CommonSuffix(a, b, n) ==
  /\ n <= Min(Len(a), Len(b))
  /\ \A k \in 0..(n - 1) : a[Len(a) - k] = b[Len(b) - k]

(***************************************************************************)
(* C15.  Character diff round trip: for all strings old and new, with      *)
(* prefix, removedSpan, addedSpan and suffix as computed by characterDiff, *)
(* prefix + removedSpan + suffix = old and prefix + addedSpan + suffix =   *)
(* new; and the rendered diff is built of these four parts.                *)
(***************************************************************************)
C15_CharDiffRoundTrip ==
  Returned("characterDiff") =>
    LET l == ret[1].locals IN
    /\ l.commonPrefix \o l.oldDiff \o l.commonSuffix = call.oldText
    /\ l.commonPrefix \o l.newDiff \o l.commonSuffix = call.newText
    /\ ret[1].value.diff =
         l.commonPrefix \o <<"{", "-">> \o l.oldDiff \o <<"-", "}">>
           \o <<"{", "+">> \o l.newDiff \o <<"+", "}">> \o l.commonSuffix

\* A diff with all four parts non-empty.
C15_Witness ==
  /\ Returned("characterDiff")
  /\ ret[1].locals.commonPrefix # <<>>
  /\ ret[1].locals.oldDiff # <<>>
  /\ ret[1].locals.newDiff # <<>>
  /\ ret[1].locals.commonSuffix # <<>>

(***************************************************************************)
(* C16.  In characterDiff, for all strings old and new,                    *)
(* commonPrefixLength + commonSuffixLength <= min(len(old), len(new)): the *)
(* suffix scan never consumes characters claimed by the prefix, the prefix *)
(* is the longest common prefix, and the suffix is the longest common      *)
(* suffix of what remains after the prefix.                                *)
(***************************************************************************)
C16_PrefixSuffixDisjoint ==
  Returned("characterDiff") =>
    LET l == ret[1].locals
        least == Min(Len(call.oldText), Len(call.newText))
        oldRest == SubSeq(call.oldText, l.i + 1, Len(call.oldText))
        newRest == SubSeq(call.newText, l.i + 1, Len(call.newText))
    IN /\ l.i + l.j <= least
       /\ Len(l.commonPrefix) = l.i
       /\ Len(l.commonSuffix) = l.j
       /\ CommonPrefix(call.oldText, call.newText, l.i)
       /\ \A n \in (l.i + 1)..least : ~CommonPrefix(call.oldText, call.newText, n)
       /\ CommonSuffix(oldRest, newRest, l.j)
       /\ \A n \in (l.j + 1)..(least - l.i) : ~CommonSuffix(oldRest, newRest, n)

\* The prefix has claimed the whole of the shorter string, whose last
\* character is also the last of the longer one: the suffix is empty.
C16_Witness ==
  /\ Returned("characterDiff")
  /\ ret[1].locals.i = Min(Len(call.oldText), Len(call.newText))
  /\ ret[1].locals.i >= 1
  /\ ret[1].locals.j = 0
  /\ Len(call.oldText) # Len(call.newText)
  /\ call.oldText[Len(call.oldText)] = call.newText[Len(call.newText)]

(***************************************************************************)
(* C17.  For all strings old and new, the changes value returned by        *)
(* characterDiff is max(len(removedSpan), len(addedSpan)), and it is 0     *)
(* exactly when old = new.                                                 *)
(***************************************************************************)
C17_ChangesIsLargerSpan ==
  Returned("characterDiff") =>
    LET l == ret[1].locals IN
    /\ ret[1].value.changes >= Len(l.oldDiff)
    /\ ret[1].value.changes >= Len(l.newDiff)
    /\ ret[1].value.changes \in {Len(l.oldDiff), Len(l.newDiff)}
    /\ (ret[1].value.changes = 0) <=> (call.oldText = call.newText)

\* Two middles of different lengths, neither empty.
C17_Witness ==
  /\ Returned("characterDiff")
  /\ ret[1].locals.oldDiff # <<>>
  /\ ret[1].locals.newDiff # <<>>
  /\ Len(ret[1].locals.oldDiff) # Len(ret[1].locals.newDiff)
  /\ ret[1].value.changes = Max(Len(ret[1].locals.oldDiff), Len(ret[1].locals.newDiff))

(***************************************************************************)
(* C18.  lineDiff on the old lines "a", "b", "c" and the new lines "a",    *)
(* "x", "c" yields exactly two entries: one Remove of "b" at line 2 and    *)
(* one Add of "x" at line 2, and no entry for the unchanged lines "a" and  *)
(* "c".                                                                    *)
(***************************************************************************)
C18_OneRemoveOneAdd ==
  (Returned("lineDiff") /\ call.oldText = AbcText /\ call.newText = AxcText) =>
    LET entries == { ret[1].value[k] : k \in 1..Len(ret[1].value) } IN
    /\ Len(ret[1].value) = 2
    /\ entries = { LineEntry("remove", 2, <<"b">>), LineEntry("add", 2, <<"x">>) }

(***************************************************************************)
(* C19, as claimed.  A backup file, once created, is never overwritten: no *)
(* later backup, write or edit of any request, on the same path or on      *)
(* another, changes the content stored at an existing backup path.         *)
(***************************************************************************)
C19_BackupNeverOverwritten ==
  [][\A p \in NewFiles : p \in DOMAIN disk' /\ disk'[p] = disk[p]]_vars

\* originalPath + ".backup-" + timestamp, written out.
BackupName(originalPath, time) ==
  originalPath \o <<".", "b", "a", "c", "k", "u", "p", "-">> \o <<ToString(time)>>

\* Request r takes its backup step in this step, at the time the clock then
\* shows.
BacksUpNow(r) == pc[r] = "BackingUp" /\ pc'[r] # "BackingUp"

\* Request r takes its write step in this step.
WritesNow(r) == pc[r] = "Writing" /\ pc'[r] # "Writing"

(***************************************************************************)
(* C19, amended.  A backup file, once created, is never deleted, and its   *)
(* content is changed only by a later backup of the same original path     *)
(* taken at the same timestamp (the copy goes to the same name and         *)
(* replaces it) or by a write whose own target path is the backup file;   *)
(* no other backup, write or edit changes it.  Each backup step that       *)
(* succeeds leaves, at originalPath + ".backup-" + timestamp, the content  *)
(* the original had at the moment of the copy, and that path is the        *)
(* request's backup path.                                                  *)
(***************************************************************************)
C19_BackupOverwrittenOnlyBy ==
  [][/\ \A p \in NewFiles :
          /\ p \in DOMAIN disk'
          /\ disk'[p] # disk[p] =>
               \E r \in Reqs :
                 \/ BacksUpNow(r) /\ p = BackupName(Target(r), now')
                 \/ WritesNow(r) /\ p = Target(r)
     /\ \A r \in Reqs :
          (BacksUpNow(r) /\ Has(r, "backup")') =>
            /\ loc'[r].backupPath = BackupName(Target(r), now')
            /\ loc'[r].backupPath \in DOMAIN disk'
            /\ disk'[loc'[r].backupPath] = disk[Target(r)]
            /\ \A p \in DOMAIN disk : p # loc'[r].backupPath => disk'[p] = disk[p]
     /\ \A p \in DOMAIN disk' \ DOMAIN disk :
          \E r \in Reqs : BacksUpNow(r) /\ p = BackupName(Target(r), now')
    ]_vars

\* Two requests have backed up to the same name, and the file of that name
\* no longer holds what the first of them copied.
C19_Witness ==
  \E r \in Reqs, q \in Reqs :
    /\ r # q
    /\ Has(r, "backup")
    /\ Has(q, "backup")
    /\ loc[r].backupPath = loc[q].backupPath
    /\ disk[loc[r].backupPath] # loc[r].originalContent
    /\ disk[loc[r].backupPath] = loc[q].originalContent

(***************************************************************************)
(* C20.  For every JSON-RPC 2.0 message handled by the MCP message handler *)
(* (initialize, mcp/execute with a known or unknown function name, or an   *)
(* unsupported method), the handler returns exactly one response whose id  *)
(* equals the id of the request, for every request id including 0.         *)
(***************************************************************************)
C20_ResponseIdIsRequestId ==
  (/\ msg # NoMessage
   /\ msg.jsonrpc = "2.0"
   /\ msg.method = "mcp/execute" => msg.params.given
   /\ replies # <<>>) =>
    /\ Len(replies) = 1
    /\ replies[1].id = msg.id

\* The message asks for the function `name`.
Executes(name) ==
  /\ msg # NoMessage
  /\ msg.jsonrpc = "2.0"
  /\ msg.method = "mcp/execute"
  /\ msg.params.given
  /\ msg.params.name = name

(***************************************************************************)
(* C21.  writeFile on an existing file with createBackupFile true:         *)
(* whenever the response carries a backupPath that is not null, the backup *)
(* was copied before the write and holds the file's original content; and  *)
(* after a successful writeFile(path, content) a readFile(path) returns    *)
(* exactly content.                                                        *)
(***************************************************************************)
C21_WriteFileBackupAndReadBack ==
  Executes("writeFile") =>
    LET parameters == msg.params.parameters
        target == normalize(parameters.filePath)
    IN /\ (wf.pc = "Write" /\ wf.backupPath # <<>>) =>
            /\ wf.backupPath \in DOMAIN disk
            /\ disk[wf.backupPath] = disk0[target]
            /\ disk[target] = disk0[target]
       /\ (wf.pc = "Done" /\ wf.outcome[1].ok) =>
            LET body == wf.outcome[1].body IN
            /\ disk[target] = parameters.content
            /\ readFile(disk, FALSE, parameters.filePath) =
                 { Outcome(TRUE, [success |-> TRUE, filePath |-> parameters.filePath,
                                  content |-> parameters.content]) }
            /\ body.backupPath # Null =>
                 /\ target \in DOMAIN disk0
                 /\ parameters.createBackupFile
                 /\ body.backupPath \in DOMAIN disk
                 /\ disk[body.backupPath] = disk0[target]
                 /\ wf.originalContent = disk0[target]
       /\ (replies # <<>> /\ replies[1].result # <<>>) =>
            /\ wf.pc = "Done"
            /\ replies[1].result[1] = wf.outcome[1].body

\* The response of a writeFile on the existing file carries a backup path,
\* the file holds the new content and the backup the old one.
C21_Witness ==
  /\ Executes("writeFile")
  /\ replies # <<>>
  /\ replies[1].result # <<>>
  /\ replies[1].result[1].backupPath # Null
  /\ disk[normalize(msg.params.parameters.filePath)] = msg.params.parameters.content
  /\ disk[replies[1].result[1].backupPath] = HelloContent
  /\ msg.params.parameters.content # HelloContent

(***************************************************************************)
(* C22.  When the occurrence count is 0 the request is always rejected as  *)
(* NoMatch, whatever expectedReplacements is (0 included), and the two     *)
(* rejections are distinguishable: a NoMatch rejection carries the         *)
(* suggestion field (possibly null) and no actualReplacements, a           *)
(* CountMismatch rejection carries actualReplacements > 0 and no           *)
(* suggestion.                                                             *)
(***************************************************************************)
C22_ZeroCountIsNoMatch ==
  \A r \in Reqs :
    /\ (Validated(r) /\ LiteralCount(loc[r].originalContent, req[r].oldString) = 0) =>
         /\ pc[r] = "Done"
         /\ RejectedAs(r, "NoMatch")
         /\ out[r][1].status = 400
    /\ RejectedAs(r, "NoMatch") =>
         /\ DOMAIN out[r][1].body = {"success", "error", "suggestion"}
         /\ loc[r].replacementCount = 0
    /\ RejectedAs(r, "CountMismatch") =>
         /\ DOMAIN out[r][1].body = {"success", "error", "actualReplacements"}
         /\ out[r][1].body.actualReplacements > 0
         /\ out[r][1].body.actualReplacements = loc[r].replacementCount

\* No occurrence and none expected: still NoMatch, with a null suggestion.
C22_Witness ==
  \E r \in Reqs :
    /\ RejectedAs(r, "NoMatch")
    /\ req[r].expectedReplacements = 0
    /\ LiteralCount(loc[r].originalContent, req[r].oldString) = 0
    /\ out[r][1].body.suggestion = <<>>

\* The offsets findClosestMatch tries, and the ones whose window agrees
\* with P at more than 0.7 of the longer of the two lengths.
Offsets(B, P) == 0..(Len(B) - (Len(P) \div 2) - 1)

Qualifies(B, P, i) ==
  LET w == WindowAt(B, i, Len(P))
  IN Agreements(w, P) * 10 > 7 * Max(Len(w), Len(P))

Qualifying(B, P) == { i \in Offsets(B, P) : Qualifies(B, P, i) }

Lowest(S) == CHOOSE i \in S : \A k \in S : i <= k

(***************************************************************************)
(* C23.  findClosestMatch returns the character diff of the window at the  *)
(* lowest offset i (0 <= i < len(buffer) - floor(len(P)/2)) whose score,   *)
(* the number of agreeing positions over max(len(window), len(P)), is      *)
(* strictly greater than 0.7, even if a later window scores higher; it     *)
(* returns no suggestion exactly when no such window exists.               *)
(***************************************************************************)
C23_FirstWindowAboveThreshold ==
  Returned("findClosestMatch") =>
    LET B == call.oldText
        P == call.newText
        Q == Qualifying(B, P)
    IN IF Q = {} THEN ret[1].value = <<>>
       ELSE ret[1].value = <<DiffOf(WindowAt(B, Lowest(Q), Len(P)), P)>>

\* The diff returned is the one of a window that agrees at 3 of 4 positions
\* while the window after it is the search string itself.
C23_Witness ==
  /\ Returned("findClosestMatch")
  /\ ret[1].value # <<>>
  /\ LET B == call.oldText
         P == call.newText
         first == Lowest(Qualifying(B, P))
     IN /\ WindowAt(B, first, Len(P)) # P
        /\ WindowAt(B, first + 1, Len(P)) = P
        /\ ret[1].value[1].changes > 0

\* The entries of kind `type` among the first n of a list of line entries.
CountOf(entries, type, n) == Cardinality({ k \in 1..n : entries[k].type = type })

\* The 0-based cursors of lineDiff when it pushed its k-th entry: a matched
\* line advances both, a Remove the old one and an Add the new one.
CursorsAt(entries, k) ==
  LET e == entries[k]
      removed == CountOf(entries, "remove", k - 1)
      added == CountOf(entries, "add", k - 1)
  IN IF e.type = "remove"
       THEN [i |-> e.line - 1, j |-> (e.line - 1) - removed + added]
       ELSE [i |-> (e.line - 1) - added + removed, j |-> e.line - 1]

\* The least distance >= 0 at which x recurs in lines after the 0-based
\* position at, or -1.
Recurs(lines, at, x) == FindIndex(Slice(lines, at + 1), x)

(***************************************************************************)
(* C24.  In lineDiff, at a mismatch oldLines[i] # newLines[j], a Remove of *)
(* oldLines[i] is emitted exactly when oldLines[i] recurs within the next  *)
(* 3 lines of newLines after j and newLines[j] does not recur closer in    *)
(* oldLines after i; in every other case, also when neither line recurs on *)
(* the other side, an Add of newLines[j] is emitted.                       *)
(***************************************************************************)
C24_RemoveOnlyOnNearRecurrence ==
  Returned("lineDiff") =>
    LET oldLines == SplitLines(call.oldText, <<>>)
        newLines == SplitLines(call.newText, <<>>)
        entries == ret[1].value
    IN \A k \in 1..Len(entries) :
         LET at == CursorsAt(entries, k) IN
         (at.i < Len(oldLines) /\ at.j < Len(newLines)) =>
           LET oldNext == Recurs(oldLines, at.i, newLines[at.j + 1])
               newNext == Recurs(newLines, at.j, oldLines[at.i + 1])
           IN (entries[k].type = "remove") <=>
                (/\ newNext # -1
                 /\ newNext < 3
                 /\ (oldNext = -1 \/ oldNext >= newNext))

(***************************************************************************)
(* C25.  Two edit requests on the same path are not isolated: each request *)
(* writes a buffer derived from its own earlier read, whatever the file    *)
(* holds at the moment of the write, so that there is an interleaving of   *)
(* their read, backup and write steps in which both requests end in        *)
(* success but the final content lacks the replacement made by one of them *)
(* (the witness).                                                          *)
(***************************************************************************)
C25_WritesBufferOfOwnRead ==
  [][\A r \in Reqs :
       (WritesNow(r) /\ Has(r, "write")') =>
         LET replaced == LiteralReplace(loc[r].originalContent,
                                        req[r].oldString, req[r].newString)
         IN /\ disk'[Target(r)] \in (IF loc[r].formatRan THEN Formatted(replaced)
                                                        ELSE {replaced})
            /\ \A p \in DOMAIN disk : p # Target(r) => disk'[p] = disk[p]
    ]_vars

\* Both requests on the file have succeeded, the second one wrote last, and
\* the file lacks the "x" that the first one wrote for its "a".
C25_Witness ==
  /\ Succeeded(1)
  /\ Succeeded(2)
  /\ Target(1) = Target(2)
  /\ out[1][1].body.replacementCount = 1
  /\ out[2][1].body.replacementCount = 1
  /\ disk[Target(1)] = <<"a", "y">>

\* The place of a step in the order read, backup, validate, replace,
\* format, write, diff.
StepRank(step) ==
  CASE step = "read" -> 1
    [] step \in {"backup", "backup-failed"} -> 2
    [] step = "validate" -> 3
    [] step = "replace" -> 4
    [] step \in {"format", "format-skipped", "format-failed"} -> 5
    [] step \in {"write", "write-failed"} -> 6
    [] step = "diff" -> 7

\* The terminal outcomes: success, a rejection, or a fatal I/O error.
TerminalOutcome(response) ==
  \/ response.status = 200 /\ response.body.success
  \/ /\ response.status = 400
     /\ ~response.body.success
     /\ response.body.error.code \in {"NoMatch", "CountMismatch", "MissingParameters"}
  \/ /\ response.status = 500
     /\ ~response.body.success
     /\ response.body.error.code \in {"AccessDenied", "ReadFailed", "WriteFailed"}

(***************************************************************************)
(* C26.  Every edit request eventually reaches exactly one terminal        *)
(* outcome (Done with success, a rejection as NoMatch, CountMismatch or    *)
(* missing parameter, or a fatal I/O error), sends exactly one response    *)
(* for it and performs no storage operation after that response; its       *)
(* steps occur only in the order read, backup, validate, replace, format,  *)
(* write, diff.                                                            *)
(***************************************************************************)
C26_OneOutcomeInOrder ==
  /\ \A r \in Reqs : (pc[r] # "Idle") ~> Finished(r)
  /\ [](\A r \in Reqs :
          /\ Len(out[r]) <= 1
          /\ (pc[r] = "Done") <=> (Len(out[r]) = 1)
          /\ Len(out[r]) = 1 => TerminalOutcome(out[r][1])
          /\ Succeeded(r) => steps[r][Len(steps[r])] = "diff" /\ Has(r, "write")
          /\ \A k \in 1..(Len(steps[r]) - 1) :
               StepRank(steps[r][k]) < StepRank(steps[r][k + 1]))
  /\ [][\A r \in Reqs :
          pc[r] = "Done" =>
            /\ pc'[r] = "Done"
            /\ out'[r] = out[r]
            /\ steps'[r] = steps[r]
            /\ loc'[r] = loc[r]
            /\ disk' # disk => \E q \in Reqs \ {r} : BacksUpNow(q) \/ WritesNow(q)
    ]_vars

\* A request has answered success after all seven steps, in their order.
C26_Witness ==
  \E r \in Reqs :
    /\ Succeeded(r)
    /\ steps[r] = <<"read", "backup", "validate", "replace", "format", "write", "diff">>

\* The lines of a hunk with one of the prefixes, and their contents.
Side(lines, prefixes) == SelectSeq(lines, LAMBDA l : l.prefix \in prefixes)

ContentsOf(lines) == [k \in 1..Len(lines) |-> lines[k].content]

\* The lines of all the hunks, one hunk after the other.
RECURSIVE AllLines(_)
AllLines(hunks) ==
  IF hunks = <<>> THEN <<>> ELSE Head(hunks).lines \o AllLines(Tail(hunks))

\* The lines from number `start` on, `count` of them, are the lines `side`.
ReadsAt(textLines, start, count, side) ==
  /\ Len(side) = count
  /\ start >= 1
  /\ start + count - 1 <= Len(textLines)
  /\ \A k \in 1..count : textLines[start + k - 1] = side[k]

(***************************************************************************)
(* C27.  For every hunk emitted by unifiedDiff, the header                 *)
(* "@@ -oldStart,oldCount +newStart,newCount @@" is accurate on each side: *)
(* oldStart and newStart are the 1-based numbers of the hunk's first line  *)
(* in the old text and in the new text, oldCount is the number of context  *)
(* plus removed lines in the hunk and newCount the number of context plus  *)
(* added lines: the old text reads, from line oldStart on, the oldCount    *)
(* context and removed lines of the hunk, and the new text, from line      *)
(* newStart on, its newCount context and added lines.                      *)
(***************************************************************************)
C27_HunkHeaderAccurate ==
  Returned("unifiedDiff") =>
    LET oldLines == SplitLines(call.oldText, <<>>)
        newLines == SplitLines(call.newText, <<>>)
        hunks == ret[1].value
    IN \A h \in 1..Len(hunks) :
         /\ ReadsAt(oldLines, hunks[h].oldStart, hunks[h].oldCount,
                    ContentsOf(Side(hunks[h].lines, {" ", "-"})))
         /\ ReadsAt(newLines, hunks[h].newStart, hunks[h].newCount,
                    ContentsOf(Side(hunks[h].lines, {" ", "+"})))

(***************************************************************************)
(* C28.  unifiedDiff renders every entry of lineDiff exactly once: each    *)
(* Remove entry appears as one '-' line and each Add entry as one '+' line *)
(* in some hunk (also when a Remove and an Add share the same line         *)
(* number), in order, and the output is empty exactly when lineDiff        *)
(* returns no entries.                                                     *)
(***************************************************************************)
C28_EveryEntryRenderedOnce ==
  Returned("unifiedDiff") =>
    LET entries == ret[1].diffs
        lines == AllLines(ret[1].value)
        Rendered(prefix) ==
          LET side == Side(lines, {prefix})
          IN [k \in 1..Len(side) |-> <<side[k].number, side[k].content>>]
        Entered(type) ==
          LET side == SelectSeq(entries, LAMBDA d : d.type = type)
          IN [k \in 1..Len(side) |-> <<side[k].line, side[k].content>>]
    IN /\ Rendered("-") = Entered("remove")
       /\ Rendered("+") = Entered("add")
       /\ (ret[1].value = <<>>) <=> (entries = <<>>)

(***************************************************************************)
(* C29.  Every hunk emitted by unifiedDiff with contextLines = c contains  *)
(* min(c, lines available) unchanged context lines before its first        *)
(* changed line and min(c, lines available) unchanged context lines after  *)
(* its last changed line, and no text line is emitted in two hunks.        *)
(***************************************************************************)
C29_ContextAroundChanges ==
  Returned("unifiedDiff") =>
    LET oldLines == SplitLines(call.oldText, <<>>)
        newLines == SplitLines(call.newText, <<>>)
        hunks == ret[1].value
        c == call.contextLines
        Changed(h) == { k \in 1..Len(hunks[h].lines) : hunks[h].lines[k].prefix # " " }
        First(h) == CHOOSE k \in Changed(h) : \A o \in Changed(h) : k <= o
        Last(h) == CHOOSE k \in Changed(h) : \A o \in Changed(h) : k >= o
        After(l) == (IF l.prefix = "-" THEN Len(oldLines) ELSE Len(newLines)) - l.number
        Emitted(h) == { <<l.prefix = "+", l.number>> :
                          l \in { hunks[h].lines[k] : k \in 1..Len(hunks[h].lines) } }
    IN /\ \A h \in 1..Len(hunks) :
            /\ Changed(h) # {}
            /\ First(h) - 1 = Min(c, hunks[h].lines[First(h)].number - 1)
            /\ Len(hunks[h].lines) - Last(h) = Min(c, After(hunks[h].lines[Last(h)]))
       /\ \A h \in 1..Len(hunks), g \in 1..Len(hunks) :
            h # g => Emitted(h) \cap Emitted(g) = {}

\* The line numbers of the entries of kind `type`.
NumbersOf(entries, type) ==
  { entries[k].line : k \in { n \in 1..Len(entries) : entries[n].type = type } }

\* The lines from number `from` on without those whose number is in
\* `numbers`.
RECURSIVE Without(_, _, _)
Without(lines, numbers, from) ==
  IF from > Len(lines) THEN <<>>
  ELSE (IF from \in numbers THEN <<>> ELSE <<lines[from]>>)
         \o Without(lines, numbers, from + 1)

(***************************************************************************)
(* C30.  lineDiff is a sound diff for all inputs and always terminates:    *)
(* deleting from the old lines those named by the Remove entries and from  *)
(* the new lines those named by the Add entries leaves two identical       *)
(* sequences; each entry's line number is the 1-based index of its content *)
(* in its own sequence, and no line is named twice; the loop, which once   *)
(* per iteration pushes an entry or passes a line kept on both sides, ends *)
(* after at most len(old) + len(new) iterations; identical inputs yield no *)
(* entries.                                                                *)
(***************************************************************************)
C30_LineDiffSound ==
  Returned("lineDiff") =>
    LET oldLines == SplitLines(call.oldText, <<>>)
        newLines == SplitLines(call.newText, <<>>)
        entries == ret[1].value
        removed == NumbersOf(entries, "remove")
        added == NumbersOf(entries, "add")
        kept == Len(oldLines) - Cardinality(removed)
    IN /\ \A k \in 1..Len(entries) :
            /\ entries[k].type \in {"remove", "add"}
            /\ entries[k].type = "remove" =>
                 /\ entries[k].line \in 1..Len(oldLines)
                 /\ oldLines[entries[k].line] = entries[k].content
            /\ entries[k].type = "add" =>
                 /\ entries[k].line \in 1..Len(newLines)
                 /\ newLines[entries[k].line] = entries[k].content
       /\ Len(entries) = Cardinality(removed) + Cardinality(added)
       /\ Without(oldLines, removed, 1) = Without(newLines, added, 1)
       /\ Len(entries) + kept <= Len(oldLines) + Len(newLines)
       /\ call.oldText = call.newText => entries = <<>>

\* A call on different texts has returned a Remove and an Add and has kept
\* a line on both sides.
C30_Witness ==
  /\ Returned("lineDiff")
  /\ call.oldText # call.newText
  /\ NumbersOf(ret[1].value, "remove") # {}
  /\ NumbersOf(ret[1].value, "add") # {}
  /\ Without(SplitLines(call.oldText, <<>>), NumbersOf(ret[1].value, "remove"), 1) # <<>>

=============================================================================
